---- MODULE Spec2Model ----
(***************************************************************************)
(* Model of the split-step Fourier solver in src/ssfm_functions.py: the    *)
(* step schedule (zstep_NL, getVariableZsteps, getZsteps) and the link     *)
(* propagator SSFM with its per-segment result records.                    *)
(*                                                                         *)
(* Numbers.  The code computes in real (floating point) arithmetic.  The   *)
(* model computes in exact integer arithmetic on a lattice of inputs on    *)
(* which every quotient the code forms is exact:                           *)
(*   - lengths, positions and step sizes are whole multiples of one length *)
(*     unit;                                                               *)
(*   - fiber.beta2 holds beta2*pi, so np.abs(fiber.beta2)*pi is            *)
(*     Abs(fiber.beta2); its magnitude Beta2Mag is a multiple of every     *)
(*     denominator zstep_NL can form from the value sets below;            *)
(*   - fiber.alpha_Np_per_m is held in units of ln(2)/2 per length unit,   *)
(*     so np.exp(2*alpha_Np_per_m*z) is 2^(alpha_Np_per_m*z);              *)
(*   - a fixed step count M is drawn only where M divides the length.      *)
(* ExactArithmetic below states that no quotient of a reachable state      *)
(* rounds.                                                                 *)
(*                                                                         *)
(* Fields.  A field (a complex array of N samples) is held as the history  *)
(* of the operations that produced it from the launched pulse: two fields  *)
(* with the same history are the same array.  The zero array of np.zeros   *)
(* has the empty history.                                                  *)
(*                                                                         *)
(* Further parts: the constructors and axes of the grid with the           *)
(* sample-level transforms (SpecG), the .csv files of a run's              *)
(* configuration (SpecL), repeated calls of getZsteps (SpecT), schedules   *)
(* at the bottom of the floating-point range (SpecU), and the merging of   *)
(* the records of a run by unpackZvals and unpackMatrix.                   *)
(***************************************************************************)
EXTENDS Integers, Sequences, FiniteSets, TLC

VARIABLES
    fiber_span,        \* fiber_span.fiber_list: the fibers of the link, in order
    input_signal,      \* the one input_signal_class object (aliased by current_input_signal)
    stepConfig,        \* (stepMode, stepApproach, stepSafetyFactor)
    pc,                \* position in SSFM / getZsteps
    i,                 \* index of the fiber being propagated (1-based)
    zinfo,             \* (z_array, dz_array) returned by getZsteps
    z_so_far,          \* getVariableZsteps locals
    z_array,
    dz_array,
    dz_current_step_to_next_step,
    ssfm_result,       \* the result record of the current fiber
    ssfm_result_list,  \* the records appended so far
    pulse,             \* SSFM locals
    spectrum,
    n,                 \* number of completed steps in the current fiber
    err,               \* err of the last energy check of a transform
    returned,          \* how the call of SSFM or of a constructor has ended, once it has
    timeFreq_test,     \* the timeFreq_class object the caller has constructed
    args,              \* the arguments of the last constructor call
    files,             \* the .csv files of the run's input_info folder, by name
    loaded,            \* what load_previous_run has loaded so far
    zvals,             \* the positions merged by unpackZvals
    pulseMatrix,       \* the matrices merged by unpackMatrix
    spectrumMatrix

vars == <<fiber_span, input_signal, stepConfig, pc, i, zinfo, z_so_far, z_array,
          dz_array, dz_current_step_to_next_step, ssfm_result, ssfm_result_list,
          pulse, spectrum, n, err, returned, timeFreq_test,
          args, files, loaded, zvals, pulseMatrix, spectrumMatrix>>

(***************************************************************************)
(* Bounds and value sets                                                   *)
(***************************************************************************)
MaxLen == 5       \* fiber lengths of the schedule specification are 1..MaxLen
MaxCount == 3     \* integer step counts are 1..MaxCount
MaxFibers == 2    \* fibers in a link
GridPoints == 4   \* timeFreq.number_of_points of the runs is GridPoints-1 or GridPoints

\* the magnitude of a non-zero beta2*pi: a power of two that every denominator
\* of zstep_NL over the value sets below divides
Beta2Mag == 2 ^ 9

Gammas == {0, 1, 2}
Beta2s == {0 - Beta2Mag, 0, Beta2Mag}
Alphas == {0, 1}
Amaxes == {1, 2}
Durations == {1, 2}
SafetyFactors == {1, 2}
Peaks == {1, 4}

Abs(x) == IF x < 0 THEN 0 - x ELSE x

Last(s) == s[Len(s)]

RECURSIVE SeqSum(_)
SeqSum(s) == IF s = <<>> THEN 0 ELSE s[1] + SeqSum(Tail(s))

(***************************************************************************)
(* numpy helpers                                                           *)
(***************************************************************************)
\* np.arange(start, stop, step), step > 0: start + k*step for every k with
\* start + k*step < stop
arange(start, stop, step) ==
    LET len == IF stop > start THEN (stop - start + step - 1) \div step ELSE 0
    IN  [k \in 1..len |-> start + (k - 1) * step]

\* mutant of linspace: the samples of endpoint=False, which stop short of stop
linspace_noEndpoint(start, stop, num) ==
    [k \in 1..num |-> start + ((k - 1) * (stop - start)) \div num]

\* np.linspace(start, stop, num): num evenly spaced samples, both ends included
linspace(start, stop, num) ==
    IF num = 1 THEN <<start>>
    ELSE [k \in 1..num |-> start + ((k - 1) * (stop - start)) \div (num - 1)]

\* np.diff(a)
diff(a) == [k \in 1..(Len(a) - 1) |-> a[k + 1] - a[k]]

\* np.exp(2*fiber.alpha_Np_per_m*z_m) in the units of the model
ExpTwoAlphaZ(alpha, z_m) == 2 ^ (alpha * z_m)

(***************************************************************************)
(* Time and frequency axes                                                 *)
(*                                                                         *)
(* An axis is held exactly, as the integer numerators num of its samples   *)
(* over one common denominator den; a sample or a spacing is a pair        *)
(* <<numerator, denominator>>.  A denominator 0 stands for the inf and nan *)
(* of a division by a zero sample interval.                                *)
(***************************************************************************)
AxisAt(axis, k) == <<axis.num[k], axis.den>>

\* axis[k] - axis[j]
AxisDiff(axis, k, j) == <<axis.num[k] - axis.num[j], axis.den>>

\* equality of two finite values
RatEq(a, b) == a[2] # 0 /\ b[2] # 0 /\ a[1] * b[2] = b[1] * a[2]

\* np.fft.fftshift(x): the zero-frequency sample moves to index len(x)//2
fftshift(x) ==
    [k \in 1..Len(x) |-> x[((k - 1 - (Len(x) \div 2)) % Len(x)) + 1]]

\* mutant of ifftshift: fftshift in its place, the same only for even lengths
ifftshift_fftshift(x) == fftshift(x)

\* np.fft.ifftshift(x)
ifftshift(x) ==
    [k \in 1..Len(x) |-> x[((k - 1 + (Len(x) \div 2)) % Len(x)) + 1]]

\* np.fft.fftfreq(num, d): [0, 1, ..., (num-1)//2, -(num//2), ..., -1] / (d*num)
fftfreq(num, d) ==
    [num |-> [k \in 1..num |->
                 (IF k - 1 <= (num - 1) \div 2 THEN k - 1 ELSE k - 1 - num) * d[2]],
     den |-> num * d[1]]

\* fftshift(fftfreq(len(time_s), d=time_s[1]-time_s[0]))
getFreqRangeFromTime(time_s) ==
    LET freq == fftfreq(Len(time_s.num), AxisDiff(time_s, 2, 1))
    IN  [num |-> fftshift(freq.num), den |-> freq.den]

\* fftshift(fftfreq(len(frequency_Hz), d=frequency_Hz[1]-frequency_Hz[0]))
getTimeFromFrequency(frequency_Hz) ==
    LET time == fftfreq(Len(frequency_Hz.num), AxisDiff(frequency_Hz, 2, 1))
    IN  [num |-> fftshift(time.num), den |-> time.den]

(***************************************************************************)
(* zstep_NL                                                                *)
(***************************************************************************)
\* mutant of zstep_NL: the attenuation exponent with the wrong sign,
\* np.exp(-2*fiber.alpha_Np_per_m*z_m)
zstep_NL_decay(z_m, fiber, signal, stepmode, stepSafetyFactor) ==
    IF fiber.gamma = 0 THEN fiber.Length
    ELSE IF fiber.beta2 = 0 THEN fiber.Length
    ELSE IF stepmode = "cautious" THEN
        (Abs(fiber.beta2) \div ExpTwoAlphaZ(fiber.alpha_Np_per_m, z_m))
            \div ((fiber.gamma * signal.Pmax * signal.duration) ^ 2 * stepSafetyFactor)
    ELSE IF stepmode = "approx" THEN
        (Abs(fiber.beta2) \div ExpTwoAlphaZ(fiber.alpha_Np_per_m, z_m))
            \div ((fiber.gamma * signal.Pmax) ^ 2
                    * (signal.duration * signal.timeFreq.time_step) * stepSafetyFactor)
    ELSE 1

zstep_NL(z_m, fiber, signal, stepmode, stepSafetyFactor) ==
    IF fiber.gamma = 0 THEN fiber.Length
    ELSE IF fiber.beta2 = 0 THEN fiber.Length
    ELSE IF stepmode = "cautious" THEN
        (Abs(fiber.beta2) * ExpTwoAlphaZ(fiber.alpha_Np_per_m, z_m))
            \div ((fiber.gamma * signal.Pmax * signal.duration) ^ 2 * stepSafetyFactor)
    ELSE IF stepmode = "approx" THEN
        (Abs(fiber.beta2) * ExpTwoAlphaZ(fiber.alpha_Np_per_m, z_m))
            \div ((fiber.gamma * signal.Pmax) ^ 2
                    * (signal.duration * signal.timeFreq.time_step) * stepSafetyFactor)
    ELSE 1

(***************************************************************************)
(* Fields and the operations of one step                                   *)
(***************************************************************************)
\* np.zeros(N)*(1+0j): a row of a freshly allocated matrix
ZeroField(N) == [hist |-> <<>>, len |-> N]

\* getPulse(timeFreq.t, peak_amplitude, duration, ...): the launched pulse
getPulse(N, peak_amplitude, duration) ==
    [hist |-> <<[op |-> "getPulse", Amax |-> peak_amplitude, duration |-> duration]>>,
     len |-> N]

\* getSpectrumFromPulse(time_s, pulse_amplitude): fftshift(fft(pulse))*dt
getSpectrumFromPulse(pulse_amplitude) ==
    [pulse_amplitude EXCEPT !.hist = Append(@, [op |-> "fft"])]

\* getPulseFromSpectrum(frequency_Hz, spectrum_amplitude): ifft(ifftshift(spectrum))/dt
getPulseFromSpectrum(spectrum_amplitude) ==
    [spectrum_amplitude EXCEPT !.hist = Append(@, [op |-> "ifft"])]

\* mutant of ApplyNonlinearity: the power of the launched pulse in the exponent
ApplyNonlinearity_launchPower(field, fiber, dz) ==
    [field EXCEPT !.hist = Append(@, [op |-> "nonlinearity", gamma |-> fiber.gamma,
                                      src |-> 1, dz |-> dz])]

\* pulse *= np.exp(nonlinearity*getPower(pulse)*dz), nonlinearity = 1j*fiber.gamma.
\* src is the length of the history of the field whose power enters the
\* exponent: the field the kick is applied to.
ApplyNonlinearity(field, fiber, dz) ==
    [field EXCEPT !.hist = Append(@, [op |-> "nonlinearity", gamma |-> fiber.gamma,
                                      src |-> Len(field.hist), dz |-> dz])]

\* mutant of ApplyDispAndLoss: spectrum*disp_and_loss, the factor of one metre
ApplyDispAndLoss_perMetre(field, fiber, dz) ==
    [field EXCEPT !.hist = Append(@, [op |-> "disp_and_loss", beta2 |-> fiber.beta2,
                                      alpha |-> fiber.alpha_Np_per_m, dz |-> 1])]

\* spectrum*(disp_and_loss**dz),
\* disp_and_loss = np.exp(1j*fiber.beta2/2*(2*pi*f)**2 - fiber.alpha_Np_per_m/2)
ApplyDispAndLoss(field, fiber, dz) ==
    [field EXCEPT !.hist = Append(@, [op |-> "disp_and_loss", beta2 |-> fiber.beta2,
                                      alpha |-> fiber.alpha_Np_per_m, dz |-> dz])]

(***************************************************************************)
(* Constructors                                                            *)
(***************************************************************************)
\* N >= 2 (the constructor raises otherwise, see ConstructTimeFreq).  The
\* samples of np.linspace(0,N*dt,N) are multiples of N*dt/(N-1) and their mean
\* is N*dt/2: both are whole over the denominator 2*(N-1).
timeFreq_class(N, dt) ==
    LET den == 2 * (N - 1)
        t0 == linspace(0, N * dt * den, N)
        mean == SeqSum(t0) \div N
        t == [num |-> [k \in 1..N |-> t0[k] - mean], den |-> den]
        f == getFreqRangeFromTime(t)
    IN  [number_of_points |-> N,
         time_step |-> dt,
         t |-> t, tmin |-> AxisAt(t, 1), tmax |-> AxisAt(t, N),
         f |-> f, fmin |-> AxisAt(f, 1), fmax |-> AxisAt(f, N),
         freq_step |-> AxisDiff(f, 2, 1)]

\* alpha_dB_per_m is held in the unit in which alpha_dB_per_m*ln(10)/10 is
\* the model's alpha_Np_per_m
fiber_class(L, gamma, beta2, alpha_dB_per_m) ==
    [Length |-> L, gamma |-> gamma, beta2 |-> beta2,
     alpha_dB_per_m |-> alpha_dB_per_m,
     alpha_Np_per_m |-> alpha_dB_per_m,
     total_loss_dB |-> alpha_dB_per_m * L]

input_signal_class(timeFreq, peak_amplitude, duration) ==
    LET amplitude == getPulse(timeFreq.number_of_points, peak_amplitude, duration)
    IN  [Amax |-> peak_amplitude,
         Pmax |-> peak_amplitude ^ 2,
         duration |-> duration,
         timeFreq |-> timeFreq,
         amplitude |-> amplitude,
         spectrum |-> getSpectrumFromPulse(amplitude)]

StrApproach(name) == [isStr |-> TRUE, name |-> name, count |-> 0]
IntApproach(M) == [isStr |-> FALSE, name |-> "", count |-> M]

(***************************************************************************)
(* getZsteps, fixed mode                                                   *)
(***************************************************************************)
\* mutant of FixedZsteps: the string branch fills dz_array with the first
\* step, as the integer branch does, instead of taking np.diff(z_array)
FixedZsteps_uniformDz(fiber, signal, stepApproach, stepSafetyFactor) ==
    IF stepApproach.isStr THEN
        LET dz == zstep_NL(0, fiber, signal, stepApproach.name, stepSafetyFactor)
            z0 == arange(0, fiber.Length, dz)
            z  == IF Last(z0) # fiber.Length THEN Append(z0, fiber.Length) ELSE z0
        IN  <<z, [k \in 1..(Len(z) - 1) |-> z[2] - z[1]]>>
    ELSE
        LET z == linspace(0, fiber.Length, stepApproach.count + 1)
        IN  <<z, [k \in 1..stepApproach.count |-> z[2] - z[1]]>>

FixedZsteps(fiber, signal, stepApproach, stepSafetyFactor) ==
    IF stepApproach.isStr THEN
        LET dz == zstep_NL(0, fiber, signal, stepApproach.name, stepSafetyFactor)
            z0 == arange(0, fiber.Length, dz)
            z  == IF Last(z0) # fiber.Length THEN Append(z0, fiber.Length) ELSE z0
        IN  <<z, diff(z)>>
    ELSE
        LET z == linspace(0, fiber.Length, stepApproach.count + 1)
        IN  <<z, [k \in 1..stepApproach.count |-> z[2] - z[1]]>>

fiber == fiber_span[i]

GetZstepsFixed ==
    /\ pc = "getZsteps"
    /\ stepConfig.stepMode = "fixed"
    /\ zinfo' = FixedZsteps(fiber, input_signal, stepConfig.stepApproach,
                            stepConfig.stepSafetyFactor)
    /\ pc' = "newResult"
    /\ UNCHANGED <<zvals, pulseMatrix, spectrumMatrix, files, loaded, args, timeFreq_test, err, returned, fiber_span, input_signal, stepConfig, i, z_so_far, z_array, dz_array,
                   dz_current_step_to_next_step, ssfm_result, ssfm_result_list,
                   pulse, spectrum, n>>

(***************************************************************************)
(* getVariableZsteps                                                       *)
(***************************************************************************)
\* mutant of VariableLoopCondition: a strict comparison
VariableLoopCondition_strict(z, dz, L) == z + dz < L

\* the condition of the while loop
VariableLoopCondition(z, dz, L) == z + dz <= L

\* mutant of VariableZstepsStart: z_so_far outlives the call (a module-level
\* position that is not set back to 0.0)
VariableZstepsStart_keepPosition ==
    /\ pc = "getZsteps"
    /\ stepConfig.stepMode # "fixed"
    /\ z_so_far' = z_so_far
    /\ z_array' = <<0>>
    /\ dz_array' = <<>>
    /\ dz_current_step_to_next_step' =
           zstep_NL(0, fiber, input_signal, stepConfig.stepApproach.name,
                    stepConfig.stepSafetyFactor)
    /\ pc' = "variableLoop"
    /\ UNCHANGED <<zvals, pulseMatrix, spectrumMatrix, files, loaded, args, timeFreq_test, err, returned, fiber_span, input_signal, stepConfig, i, zinfo, ssfm_result,
                   ssfm_result_list, pulse, spectrum, n>>

VariableZstepsStart ==
    /\ pc = "getZsteps"
    /\ stepConfig.stepMode # "fixed"
    /\ z_so_far' = 0
    /\ z_array' = <<0>>
    /\ dz_array' = <<>>
    /\ dz_current_step_to_next_step' =
           zstep_NL(0, fiber, input_signal, stepConfig.stepApproach.name,
                    stepConfig.stepSafetyFactor)
    /\ pc' = "variableLoop"
    /\ UNCHANGED <<zvals, pulseMatrix, spectrumMatrix, files, loaded, args, timeFreq_test, err, returned, fiber_span, input_signal, stepConfig, i, zinfo, ssfm_result,
                   ssfm_result_list, pulse, spectrum, n>>

VariableZstepsLoop ==
    /\ pc = "variableLoop"
    /\ VariableLoopCondition(z_so_far, dz_current_step_to_next_step, fiber.Length)
    /\ z_so_far' = z_so_far + dz_current_step_to_next_step
    /\ z_array' = Append(z_array, z_so_far')
    /\ dz_array' = Append(dz_array, dz_current_step_to_next_step)
    /\ dz_current_step_to_next_step' =
           zstep_NL(z_so_far', fiber, input_signal, stepConfig.stepApproach.name,
                    stepConfig.stepSafetyFactor)
    /\ UNCHANGED <<zvals, pulseMatrix, spectrumMatrix, files, loaded, args, timeFreq_test, err, returned, fiber_span, input_signal, stepConfig, pc, i, zinfo, ssfm_result,
                   ssfm_result_list, pulse, spectrum, n>>

VariableZstepsReturn ==
    /\ pc = "variableLoop"
    /\ ~VariableLoopCondition(z_so_far, dz_current_step_to_next_step, fiber.Length)
    /\ z_array' = Append(z_array, fiber.Length)
    /\ dz_array' = Append(dz_array, fiber.Length - z_so_far)
    /\ zinfo' = <<z_array', dz_array'>>
    /\ pc' = "newResult"
    /\ UNCHANGED <<zvals, pulseMatrix, spectrumMatrix, files, loaded, args, timeFreq_test, err, returned, fiber_span, input_signal, stepConfig, i, z_so_far,
                   dz_current_step_to_next_step, ssfm_result, ssfm_result_list,
                   pulse, spectrum, n>>

(***************************************************************************)
(* Inputs                                                                  *)
(***************************************************************************)
StepApproaches(lengths) ==
    {StrApproach("cautious"), StrApproach("approx")}
        \cup {IntApproach(M) : M \in {c \in 1..MaxCount : \A L \in lengths : L % c = 0}}

\* the step configurations a run is given: an integer count goes with fixed mode
StepConfigs(lengths) ==
    {c \in [stepMode : {"fixed", "variable"},
            stepApproach : StepApproaches(lengths),
            stepSafetyFactor : SafetyFactors] :
        c.stepMode = "variable" => c.stepApproach.isStr}

NoResult == [fiberIndex |-> 0, zinfo |-> <<<<>>, <<>>>>, pulseMatrix |-> <<>>,
             spectrumMatrix |-> <<>>]

\* SSFM has not ended / has returned a value / has let an exception through
Running == [kind |-> "running"]
Return(value) == [kind |-> "return", value |-> value]
Raise(exception) == [kind |-> "raise", exception |-> exception]

LocalsInit ==
    /\ pc = "getZsteps"
    /\ i = 1
    /\ zinfo = <<<<>>, <<>>>>
    /\ z_so_far = 0
    /\ z_array = <<>>
    /\ dz_array = <<>>
    /\ dz_current_step_to_next_step = 0
    /\ ssfm_result = NoResult
    /\ ssfm_result_list = <<>>
    /\ pulse = ZeroField(0)
    /\ spectrum = ZeroField(0)
    /\ n = 0
    /\ err = "below"
    /\ returned = Running
    /\ timeFreq_test = input_signal.timeFreq
    /\ args = <<>>
    /\ files = <<>>
    /\ loaded = <<>>
    /\ zvals = <<>>
    /\ pulseMatrix = <<>>
    /\ spectrumMatrix = <<>>

\* one fiber, one signal, one step configuration: the inputs of getZsteps
InitZ ==
    /\ \E L \in 1..MaxLen, gamma \in Gammas, beta2 \in Beta2s, alpha \in Alphas :
           /\ fiber_span = <<fiber_class(L, gamma, beta2, alpha)>>
           /\ stepConfig \in StepConfigs({L})
    /\ \E A \in Amaxes, d \in Durations, dt \in {1, 2} :
           input_signal = input_signal_class(timeFreq_class(GridPoints, dt), A, d)
    /\ LocalsInit

NextZ ==
    \/ GetZstepsFixed
    \/ VariableZstepsStart
    \/ VariableZstepsLoop
    \/ VariableZstepsReturn

SpecZ == InitZ /\ [][NextZ]_vars

\* step configurations getZsteps has no check against: a stepMode that is
\* neither 'fixed' nor 'variable', or a stepSafetyFactor <= 0.  Of the latter
\* only those are drawn where the code never divides by the factor: an integer
\* stepApproach (fixed mode), or a fiber for which zstep_NL returns
\* fiber.Length before it reaches the division.
InvalidStepConfigs(fib) ==
    [stepMode : {"adaptive"},
     stepApproach : {StrApproach("cautious"), StrApproach("approx")},
     stepSafetyFactor : SafetyFactors]
    \cup
    {c \in [stepMode : {"fixed", "variable", "adaptive"},
            stepApproach : StepApproaches({fib.Length}),
            stepSafetyFactor : {0 - 1, 0}] :
        /\ c.stepMode # "fixed" => c.stepApproach.isStr
        /\ c.stepApproach.isStr => (fib.gamma = 0 \/ fib.beta2 = 0)}

InitC ==
    /\ \E L \in 1..MaxLen, gamma \in Gammas, beta2 \in Beta2s, alpha \in Alphas :
           /\ fiber_span = <<fiber_class(L, gamma, beta2, alpha)>>
           /\ stepConfig \in InvalidStepConfigs(fiber_span[1])
    /\ \E A \in Amaxes, d \in Durations :
           input_signal = input_signal_class(timeFreq_class(GridPoints, 1), A, d)
    /\ LocalsInit

SpecC == InitC /\ [][NextZ]_vars

\* step configurations with a fourth entry, a maximum number of steps:
\* getZsteps and saveStepConfig read stepConfig_list[0], [1] and [2] only
StepLimits == {1, 2}

InitO ==
    /\ \E L \in 1..MaxLen, gamma \in Gammas, beta2 \in Beta2s, alpha \in Alphas :
           /\ fiber_span = <<fiber_class(L, gamma, beta2, alpha)>>
           /\ \E c \in StepConfigs({L}), m \in StepLimits :
                  stepConfig = [stepMode |-> c.stepMode,
                                stepApproach |-> c.stepApproach,
                                stepSafetyFactor |-> c.stepSafetyFactor,
                                maxSteps |-> m]
    /\ \E A \in Amaxes, d \in Durations :
           input_signal = input_signal_class(timeFreq_class(GridPoints, 1), A, d)
    /\ LocalsInit

SpecO == InitO /\ [][NextZ]_vars

\* getZsteps called a second time with the same fiber, signal and step
\* configuration objects: the caller keeps the first schedule and calls again.
\* The locals of the first call are gone; in the model they hold what the
\* first call left until the second call assigns them.
CallAgain ==
    /\ pc = "newResult"
    /\ returned = Running
    /\ returned' = Return(zinfo)
    /\ pc' = "getZsteps"
    /\ UNCHANGED <<zvals, pulseMatrix, spectrumMatrix, files, loaded, args, timeFreq_test, err, fiber_span, input_signal, stepConfig, i, zinfo, z_so_far, z_array,
                   dz_array, dz_current_step_to_next_step, ssfm_result,
                   ssfm_result_list, pulse, spectrum, n>>

NextT ==
    \/ GetZstepsFixed
    \/ VariableZstepsStart
    \/ VariableZstepsLoop
    \/ VariableZstepsReturn
    \/ CallAgain

SpecT == InitZ /\ [][NextT]_vars

\* Schedules at the bottom of the range of the floating-point numbers, where
\* the doubles are the whole multiples of the smallest positive double and a
\* quotient is rounded to the nearest of them.  np.abs(beta2)*pi of the
\* smallest positive beta2 is pi of these units, rounded to 3.
Beta2Tiny == 3

\* the number of steps of no length after which a run is no longer followed
MaxStalled == 3

\* getVariableZsteps on a fiber of such a beta2, or of one of magnitude
\* Beta2Mag.  Over these inputs every quotient of zstep_NL is either whole or
\* below one half, which rounds to 0 as the integer division does.
InitU ==
    /\ \E L \in 1..MaxLen, gamma \in {1, 2},
          beta2 \in {0 - Beta2Tiny, Beta2Tiny, Beta2Mag}, alpha \in Alphas :
           fiber_span = <<fiber_class(L, gamma, beta2, alpha)>>
    /\ stepConfig \in {c \in StepConfigs({}) : c.stepMode = "variable"}
    /\ \E d \in Durations, dt \in {1, 2} :
           input_signal = input_signal_class(timeFreq_class(GridPoints, dt), 2, d)
    /\ LocalsInit

\* an iteration of the while loop, followed for MaxStalled iterations
VariableZstepsLoopFollowed ==
    /\ Len(dz_array) < MaxStalled
    /\ VariableZstepsLoop

NextU ==
    \/ VariableZstepsStart
    \/ VariableZstepsLoopFollowed
    \/ VariableZstepsReturn

SpecU == InitU /\ [][NextU]_vars

(***************************************************************************)
(* ssfm_result_class and the loop of SSFM                                  *)
(***************************************************************************)
\* ssfm_result_class.__init__: the record keeps a reference to the signal
\* object it is given (SignalRef names the one input_signal_class object of a
\* run) and allocates len(zinfo[0]) rows of N zeros, row 0 filled from the
\* signal
SignalRef == "input_signal"

\* mutant of ssfm_result_class: one row per step, none for the launched field
ssfm_result_class_rowPerStep(signal, fib, config, zi) ==
    [input_signal |-> SignalRef,
     fiber |-> fib,
     stepConfig |-> config,
     zinfo |-> zi,
     pulseMatrix |->
         [r \in 1..Len(zi[2]) |->
             IF r = 1 THEN signal.amplitude
             ELSE ZeroField(signal.timeFreq.number_of_points)],
     spectrumMatrix |->
         [r \in 1..Len(zi[2]) |->
             IF r = 1 THEN signal.spectrum
             ELSE ZeroField(signal.timeFreq.number_of_points)]]

ssfm_result_class(signal, fib, config, zi) ==
    [input_signal |-> SignalRef,
     fiber |-> fib,
     stepConfig |-> config,
     zinfo |-> zi,
     pulseMatrix |->
         [r \in 1..Len(zi[1]) |->
             IF r = 1 THEN signal.amplitude
             ELSE ZeroField(signal.timeFreq.number_of_points)],
     spectrumMatrix |->
         [r \in 1..Len(zi[1]) |->
             IF r = 1 THEN signal.spectrum
             ELSE ZeroField(signal.timeFreq.number_of_points)]]

\* mutant of dz: the size of the first step in every iteration
dz_firstStep == zinfo[2][1]

\* the step size of the iteration the loop is in
dz == zinfo[2][n + 1]

\* ssfm_result = ssfm_result_class(current_input_signal, ...);
\* pulse = np.copy(input_signal.amplitude); spectrum = np.copy(input_signal.spectrum)
NewResult ==
    /\ pc = "newResult"
    /\ ssfm_result' = ssfm_result_class(input_signal, fiber, stepConfig, zinfo)
    /\ pulse' = input_signal.amplitude
    /\ spectrum' = input_signal.spectrum
    /\ n' = 0
    /\ pc' = "nonlinearity"
    /\ UNCHANGED <<zvals, pulseMatrix, spectrumMatrix, files, loaded, args, timeFreq_test, err, returned, fiber_span, input_signal, stepConfig, i, zinfo, z_so_far, z_array,
                   dz_array, dz_current_step_to_next_step, ssfm_result_list>>

\* pulse *= np.exp(nonlinearity*getPower(pulse)*dz)
Nonlinearity ==
    /\ pc = "nonlinearity"
    /\ pulse' = ApplyNonlinearity(pulse, fiber, dz)
    /\ pc' = "dispAndLoss"
    /\ UNCHANGED <<zvals, pulseMatrix, spectrumMatrix, files, loaded, args, timeFreq_test, err, returned, fiber_span, input_signal, stepConfig, i, zinfo, z_so_far, z_array,
                   dz_array, dz_current_step_to_next_step, ssfm_result,
                   ssfm_result_list, spectrum, n>>

\* err=np.abs((pulseEnergy/spectrumEnergy-1)) of a transform: the samples of
\* a field are not held, so err is any of: below 1e-7, not below 1e-7, NaN
\* (a field holding NaN or infinity, or one of zero energy)
EnergyErrors == {"below", "notBelow", "nan"}

\* mutant of EnergyCheckPasses: assert not (err >= 1e-7), which NaN passes
EnergyCheckPasses_notAbove(e) == e # "notBelow"

\* assert( err<1e-7 ): a comparison with NaN is False
EnergyCheckPasses(e) == e = "below"

\* spectrum = getSpectrumFromPulse(t, pulse)*(disp_and_loss**dz); the assert
\* of getSpectrumFromPulse raises before spectrum is assigned
DispAndLoss ==
    /\ pc = "dispAndLoss"
    /\ \E e \in EnergyErrors :
           /\ err' = e
           /\ IF EnergyCheckPasses(e)
                  THEN /\ spectrum' = ApplyDispAndLoss(getSpectrumFromPulse(pulse), fiber, dz)
                       /\ pc' = "toTimeDomain"
                       /\ returned' = returned
                  ELSE /\ spectrum' = spectrum
                       /\ pc' = "raised"
                       /\ returned' = Raise("AssertionError")
    /\ UNCHANGED <<zvals, pulseMatrix, spectrumMatrix, files, loaded, args, timeFreq_test, fiber_span, input_signal, stepConfig, i, zinfo, z_so_far, z_array,
                   dz_array, dz_current_step_to_next_step, ssfm_result,
                   ssfm_result_list, pulse, n>>

\* pulse = getPulseFromSpectrum(f, spectrum); the assert of
\* getPulseFromSpectrum raises before pulse is assigned
ToTimeDomain ==
    /\ pc = "toTimeDomain"
    /\ \E e \in EnergyErrors :
           /\ err' = e
           /\ IF EnergyCheckPasses(e)
                  THEN /\ pulse' = getPulseFromSpectrum(spectrum)
                       /\ pc' = "storePulse"
                       /\ returned' = returned
                  ELSE /\ pulse' = pulse
                       /\ pc' = "raised"
                       /\ returned' = Raise("AssertionError")
    /\ UNCHANGED <<zvals, pulseMatrix, spectrumMatrix, files, loaded, args, timeFreq_test, fiber_span, input_signal, stepConfig, i, zinfo, z_so_far, z_array,
                   dz_array, dz_current_step_to_next_step, ssfm_result,
                   ssfm_result_list, spectrum, n>>

\* mutant of StorePulse: the row of the step before
StorePulse_rowN ==
    /\ pc = "storePulse"
    /\ ssfm_result' = [ssfm_result EXCEPT !.pulseMatrix[n + 1] = pulse]
    /\ pc' = "storeSpectrum"
    /\ UNCHANGED <<zvals, pulseMatrix, spectrumMatrix, files, loaded, args, timeFreq_test, err, returned, fiber_span, input_signal, stepConfig, i, zinfo, z_so_far, z_array,
                   dz_array, dz_current_step_to_next_step, ssfm_result_list,
                   pulse, spectrum, n>>

\* ssfm_result.pulseMatrix[n+1,:] = pulse
StorePulse ==
    /\ pc = "storePulse"
    /\ ssfm_result' = [ssfm_result EXCEPT !.pulseMatrix[n + 2] = pulse]
    /\ pc' = "storeSpectrum"
    /\ UNCHANGED <<zvals, pulseMatrix, spectrumMatrix, files, loaded, args, timeFreq_test, err, returned, fiber_span, input_signal, stepConfig, i, zinfo, z_so_far, z_array,
                   dz_array, dz_current_step_to_next_step, ssfm_result_list,
                   pulse, spectrum, n>>

\* ssfm_result.spectrumMatrix[n+1,:] = spectrum, and the for loop moves on
StoreSpectrum ==
    /\ pc = "storeSpectrum"
    /\ ssfm_result' = [ssfm_result EXCEPT !.spectrumMatrix[n + 2] = spectrum]
    /\ n' = n + 1
    /\ pc' = IF n + 1 < Len(zinfo[2]) THEN "nonlinearity" ELSE "endFiber"
    /\ UNCHANGED <<zvals, pulseMatrix, spectrumMatrix, files, loaded, args, timeFreq_test, err, returned, fiber_span, input_signal, stepConfig, i, zinfo, z_so_far, z_array,
                   dz_array, dz_current_step_to_next_step, ssfm_result_list,
                   pulse, spectrum>>

\* the time axis linspace(0, N*dt, N) - mean has the samples
\* (2*k - (N-1)) * N*dt / (2*(N-1)), k = 0..N-1: one of them is 0, where the
\* pulse of getPulse peaks, exactly when N is odd
PeakIsSampled(N) == \E k \in 0..(N - 1) : 2 * k = N - 1

\* np.max(getPower(field)): peak_amplitude**2 for a launched pulse with a
\* sample on its peak, less than that for one without, any lattice value for
\* a propagated field
MaxPower(field) ==
    IF Len(field.hist) = 1 /\ field.hist[1].op = "getPulse"
        THEN IF PeakIsSampled(field.len)
                 THEN {field.hist[1].Amax ^ 2}
                 ELSE 1..(field.hist[1].Amax ^ 2 - 1)
        ELSE Peaks

\* mutant of EndFiber: the output field is not handed to the signal object
EndFiber_noHandOver ==
    /\ pc = "endFiber"
    /\ ssfm_result_list' = Append(ssfm_result_list, ssfm_result)
    /\ \E peak \in Peaks :
           input_signal' = [input_signal EXCEPT !.Pmax = peak]
    /\ IF i < Len(fiber_span)
           THEN i' = i + 1 /\ pc' = "getZsteps"
           ELSE i' = i /\ pc' = "return"
    /\ UNCHANGED <<zvals, pulseMatrix, spectrumMatrix, files, loaded, args, timeFreq_test, err, returned, fiber_span, stepConfig, zinfo, z_so_far, z_array, dz_array,
                   dz_current_step_to_next_step, ssfm_result, pulse, spectrum, n>>

\* ssfm_result_list.append(ssfm_result);
\* current_input_signal.amplitude = np.copy(pulse);
\* current_input_signal.Pmax = np.max(getPower(pulse));
\* then the next fiber of the for loop, or return ssfm_result_list
EndFiber ==
    /\ pc = "endFiber"
    /\ ssfm_result_list' = Append(ssfm_result_list, ssfm_result)
    /\ \E peak \in MaxPower(pulse) :
           input_signal' = [input_signal EXCEPT !.amplitude = pulse, !.Pmax = peak]
    /\ IF i < Len(fiber_span)
           THEN i' = i + 1 /\ pc' = "getZsteps"
           ELSE i' = i /\ pc' = "return"
    /\ UNCHANGED <<zvals, pulseMatrix, spectrumMatrix, files, loaded, args, timeFreq_test, err, returned, fiber_span, stepConfig, zinfo, z_so_far, z_array, dz_array,
                   dz_current_step_to_next_step, ssfm_result, pulse, spectrum, n>>

\* return ssfm_result_list
ReturnResults ==
    /\ pc = "return"
    /\ returned' = Return(ssfm_result_list)
    /\ pc' = "done"
    /\ UNCHANGED <<zvals, pulseMatrix, spectrumMatrix, files, loaded, args, timeFreq_test, err, fiber_span, input_signal, stepConfig, i, zinfo, z_so_far, z_array,
                   dz_array, dz_current_step_to_next_step, ssfm_result,
                   ssfm_result_list, pulse, spectrum, n>>

(***************************************************************************)
(* Merging the records of a run: unpackZvals and unpackMatrix              *)
(***************************************************************************)
\* the positions of all segments in one array: every segment but the last
\* without its last position, each shifted by the length of the fibers before
unpackZvals(result_list) ==
    LET number_of_fibers == Len(result_list)
        RECURSIVE merge(_, _, _)
        merge(zv, k, previous_length) ==
            IF k > number_of_fibers THEN zv
            ELSE LET z == result_list[k].zinfo[1]
                     kept == IF k = number_of_fibers THEN z
                             ELSE SubSeq(z, 1, Len(z) - 1)
                 IN  merge(zv \o [r \in 1..Len(kept) |-> kept[r] + previous_length],
                           k + 1, previous_length + result_list[k].fiber.Length)
    IN  IF number_of_fibers = 1 THEN result_list[1].zinfo[1]
        ELSE merge(<<>>, 1, 0)

\* the matrices of all segments in one matrix of len(zvals) rows: the rows
\* of every segment but the last without its last row, from starting_row on
unpackMatrix(result_list, zv, timeFreq, pulse_or_spectrum) ==
    LET number_of_fibers == Len(result_list)
        sourceMatrix(k) == IF pulse_or_spectrum = "pulse"
                               THEN result_list[k].pulseMatrix
                               ELSE result_list[k].spectrumMatrix
        rows(k) == Len(result_list[k].zinfo[1])
        RECURSIVE fill(_, _, _)
        fill(matrix, k, starting_row) ==
            IF k > number_of_fibers THEN matrix
            ELSE LET count == IF k = number_of_fibers THEN rows(k) ELSE rows(k) - 1
                 IN  fill([r \in 1..Len(matrix) |->
                              IF r > starting_row /\ r <= starting_row + count
                                  THEN sourceMatrix(k)[r - starting_row]
                                  ELSE matrix[r]],
                          k + 1, starting_row + rows(k) - 1)
    IN  IF number_of_fibers = 1 THEN sourceMatrix(1)
        ELSE fill([r \in 1..Len(zv) |-> ZeroField(Len(timeFreq.t.num))], 1, 0)

\* zvals = unpackZvals(ssfm_result_list);
\* pulseMatrix = unpackMatrix(ssfm_result_list, zvals, timeFreq, "pulse");
\* spectrumMatrix = unpackMatrix(ssfm_result_list, zvals, timeFreq, "spectrum")
\* on the list a run has returned
UnpackResults ==
    /\ pc = "done"
    /\ returned.kind = "return"
    /\ zvals' = unpackZvals(returned.value)
    /\ pulseMatrix' = unpackMatrix(returned.value, zvals', input_signal.timeFreq, "pulse")
    /\ spectrumMatrix' =
           unpackMatrix(returned.value, zvals', input_signal.timeFreq, "spectrum")
    /\ pc' = "unpacked"
    /\ UNCHANGED <<files, loaded, args, timeFreq_test, err, returned, fiber_span,
                   input_signal, stepConfig, i, zinfo, z_so_far, z_array, dz_array,
                   dz_current_step_to_next_step, ssfm_result, ssfm_result_list,
                   pulse, spectrum, n>>

(***************************************************************************)
(* Construction of grids and fibers by the caller (specification SpecG)    *)
(***************************************************************************)
\* before timeFreq_class has been constructed
NoTimeFreq == [number_of_points |-> 0]

\* before input_signal_class has been constructed
NoSignal == [Amax |-> 0]

\* the arguments a caller may pass; neither constructor checks them
GridNs == (0 - 1)..GridPoints
GridDts == {0 - 1, 0, 1, 2}
FiberLengths == {0 - 1, 0, 2}
FiberAlphas == {0 - 1, 0}

\* timeFreq_test = timeFreq_class(N, dt).  np.linspace raises ValueError for
\* N < 0; for N = 0 self.t[0] and for N = 1 time_s[1] raise IndexError;
\* dt <= 0 raises nothing (a zero interval gives a frequency axis of inf and
\* nan)
ConstructTimeFreq ==
    /\ pc = "construct"
    /\ timeFreq_test = NoTimeFreq
    /\ \E N \in GridNs, dt \in GridDts :
           /\ args' = <<N, dt>>
           /\ IF N < 0
                  THEN /\ returned' = Raise("ValueError")
                       /\ pc' = "raised"
                       /\ timeFreq_test' = timeFreq_test
                  ELSE IF N < 2
                  THEN /\ returned' = Raise("IndexError")
                       /\ pc' = "raised"
                       /\ timeFreq_test' = timeFreq_test
                  ELSE /\ timeFreq_test' = timeFreq_class(N, dt)
                       /\ pc' = "construct"
                       /\ returned' = returned
    /\ UNCHANGED <<zvals, pulseMatrix, spectrumMatrix, files, loaded, err, fiber_span, input_signal, stepConfig, i, zinfo, z_so_far,
                   z_array, dz_array, dz_current_step_to_next_step, ssfm_result,
                   ssfm_result_list, pulse, spectrum, n>>

\* current_fiber = fiber_class(L, gamma, beta2, alpha_dB_per_m);
\* fiber_list.append(current_fiber)
ConstructFiber ==
    /\ pc = "construct"
    /\ Len(fiber_span) < MaxFibers
    /\ \E L \in FiberLengths, alpha_dB_per_m \in FiberAlphas :
           /\ args' = <<L, 1, Beta2Mag, alpha_dB_per_m>>
           /\ fiber_span' = Append(fiber_span, fiber_class(L, 1, Beta2Mag, alpha_dB_per_m))
    /\ UNCHANGED <<zvals, pulseMatrix, spectrumMatrix, files, loaded, timeFreq_test, err, returned, input_signal, stepConfig, pc, i, zinfo,
                   z_so_far, z_array, dz_array, dz_current_step_to_next_step,
                   ssfm_result, ssfm_result_list, pulse, spectrum, n>>

(***************************************************************************)
(* The transforms on samples.  A sampled field holds, for each position,   *)
(* which sample of the field a (time domain) or which bin of its DFT       *)
(* (frequency domain) stands there, and the factor all of them are         *)
(* multiplied by.  A DFT of samples that are out of place is no            *)
(* rearrangement of a or of its DFT: garbled.                              *)
(***************************************************************************)
RatMul(a, b) == <<a[1] * b[1], a[2] * b[2]>>
RatDiv(a, b) == <<a[1] * b[2], a[2] * b[1]>>

InPlace(order) == \A k \in 1..Len(order) : order[k] = k

\* the field a on a grid of N samples
SampledField(N) ==
    [domain |-> "time", order |-> [k \in 1..N |-> k], scale |-> <<1, 1>>,
     garbled |-> FALSE]

\* scipy.fftpack.fft(x)
fft(x) ==
    [x EXCEPT !.domain = "frequency",
              !.garbled = @ \/ x.domain # "time" \/ ~InPlace(x.order)]

\* scipy.fftpack.ifft(x)
ifft(x) ==
    [x EXCEPT !.domain = "time",
              !.garbled = @ \/ x.domain # "frequency" \/ ~InPlace(x.order)]

\* getSpectrumFromPulse on samples:
\* dt=time_s[1]-time_s[0]; spectrum_amplitude=fftshift(fft(pulse_amplitude))*dt
getSpectrumFromPulse_samples(time_s, pulse_amplitude) ==
    LET dt == AxisDiff(time_s, 2, 1)
        transformed == fft(pulse_amplitude)
    IN  [transformed EXCEPT !.order = fftshift(@), !.scale = RatMul(@, dt)]

\* getPulseFromSpectrum on samples: time = getTimeFromFrequency(frequency_Hz);
\* dt = time[1]-time[0]; pulse = ifft(ifftshift(spectrum_amplitude))/dt
getPulseFromSpectrum_samples(frequency_Hz, spectrum_amplitude) ==
    LET time == getTimeFromFrequency(frequency_Hz)
        dt == AxisDiff(time, 2, 1)
        transformed == ifft([spectrum_amplitude EXCEPT !.order = ifftshift(@)])
    IN  [transformed EXCEPT !.scale = RatDiv(@, dt)]

\* err of an energy check on the grid: with a zero sample interval np.trapz
\* gives zero energies and err is NaN; the samples are not held, so it is
\* any value otherwise
GridEnergyErrors(grid) ==
    IF grid.time_step = 0 THEN {"nan"} ELSE EnergyErrors

\* the caller's field a on the grid timeFreq_test.t
MakePulse ==
    /\ pc = "construct"
    /\ timeFreq_test # NoTimeFreq
    /\ pulse' = SampledField(timeFreq_test.number_of_points)
    /\ pc' = "forward"
    /\ UNCHANGED <<zvals, pulseMatrix, spectrumMatrix, files, loaded, args, timeFreq_test, err, returned, fiber_span, input_signal,
                   stepConfig, i, zinfo, z_so_far, z_array, dz_array,
                   dz_current_step_to_next_step, ssfm_result, ssfm_result_list,
                   spectrum, n>>

\* spectrum = getSpectrumFromPulse(timeFreq_test.t, pulse)
ForwardTransform ==
    /\ pc = "forward"
    /\ \E e \in GridEnergyErrors(timeFreq_test) :
           /\ err' = e
           /\ IF EnergyCheckPasses(e)
                  THEN /\ spectrum' = getSpectrumFromPulse_samples(timeFreq_test.t, pulse)
                       /\ pc' = "inverse"
                       /\ returned' = returned
                  ELSE /\ spectrum' = spectrum
                       /\ pc' = "raised"
                       /\ returned' = Raise("AssertionError")
    /\ UNCHANGED <<zvals, pulseMatrix, spectrumMatrix, files, loaded, args, timeFreq_test, fiber_span, input_signal, stepConfig, i, zinfo,
                   z_so_far, z_array, dz_array, dz_current_step_to_next_step,
                   ssfm_result, ssfm_result_list, pulse, n>>

\* pulse = getPulseFromSpectrum(timeFreq_test.f, spectrum)
InverseTransform ==
    /\ pc = "inverse"
    /\ \E e \in GridEnergyErrors(timeFreq_test) :
           /\ err' = e
           /\ IF EnergyCheckPasses(e)
                  THEN /\ pulse' = getPulseFromSpectrum_samples(timeFreq_test.f, spectrum)
                       /\ pc' = "roundTrip"
                       /\ returned' = returned
                  ELSE /\ pulse' = pulse
                       /\ pc' = "raised"
                       /\ returned' = Raise("AssertionError")
    /\ UNCHANGED <<zvals, pulseMatrix, spectrumMatrix, files, loaded, args, timeFreq_test, fiber_span, input_signal, stepConfig, i, zinfo,
                   z_so_far, z_array, dz_array, dz_current_step_to_next_step,
                   ssfm_result, ssfm_result_list, spectrum, n>>

InitG ==
    /\ pc = "construct"
    /\ timeFreq_test = NoTimeFreq
    /\ fiber_span = <<>>
    /\ input_signal = NoSignal
    /\ stepConfig = [stepMode |-> "fixed", stepApproach |-> StrApproach("cautious"),
                     stepSafetyFactor |-> 10]
    /\ args = <<>>
    /\ i = 1
    /\ zinfo = <<<<>>, <<>>>>
    /\ z_so_far = 0
    /\ z_array = <<>>
    /\ dz_array = <<>>
    /\ dz_current_step_to_next_step = 0
    /\ ssfm_result = NoResult
    /\ ssfm_result_list = <<>>
    /\ pulse = ZeroField(0)
    /\ spectrum = ZeroField(0)
    /\ n = 0
    /\ err = "below"
    /\ returned = Running
    /\ files = <<>>
    /\ loaded = <<>>
    /\ zvals = <<>>
    /\ pulseMatrix = <<>>
    /\ spectrumMatrix = <<>>

NextG ==
    \/ ConstructTimeFreq
    \/ ConstructFiber
    \/ MakePulse
    \/ ForwardTransform
    \/ InverseTransform

SpecG == InitG /\ [][NextG]_vars

(***************************************************************************)
(* Runs of SSFM                                                            *)
(***************************************************************************)
\* the fibers the links of a run are built from
SpanFibers ==
    {fiber_class(4, 2, 0 - Beta2Mag, 0),
     fiber_class(4, 2, Beta2Mag, 1),
     fiber_class(2, 0, 0 - Beta2Mag, 0),
     fiber_class(2, 2, 0, 1),
     fiber_class(2, 2, 0, 0),
     fiber_class(4, 0, 0 - Beta2Mag, 0)}

FiberSpans == UNION {[1..len -> SpanFibers] : len \in 1..MaxFibers}

Init ==
    /\ fiber_span \in FiberSpans
    /\ stepConfig \in StepConfigs({fiber_span[k].Length : k \in 1..Len(fiber_span)})
    /\ \E d \in Durations, N \in {GridPoints - 1, GridPoints} :
           input_signal = input_signal_class(timeFreq_class(N, 1), 2, d)
    /\ LocalsInit

Next ==
    \/ GetZstepsFixed
    \/ VariableZstepsStart
    \/ VariableZstepsLoop
    \/ VariableZstepsReturn
    \/ NewResult
    \/ Nonlinearity
    \/ DispAndLoss
    \/ ToTimeDomain
    \/ StorePulse
    \/ StoreSpectrum
    \/ EndFiber
    \/ ReturnResults
    \/ UnpackResults

Spec == Init /\ [][Next]_vars

(***************************************************************************)
(* Saving the configuration of a run and loading it (specification SpecL)  *)
(*                                                                         *)
(* A python value is held with its type.  The text of a .csv cell is held  *)
(* by its form: an integer literal, a decimal literal (with a point or an  *)
(* exponent) or any other text.                                            *)
(***************************************************************************)
PyInt(v) == [type |-> "int", val |-> v]
PyFloat(v) == [type |-> "float", val |-> v]
PyStr(v) == [type |-> "str", val |-> v]

IsNumber(x) == x.type \in {"int", "float"}

\* the python type of the numbers the caller has built the objects from
NumberTypes == {"int", "float"}

\* a number of an object, as the caller has passed it
Number(v) == [type |-> args.number, val |-> v]

\* pd.Series(values), also the dtype of a column: numbers with a float among
\* them all become float64; with a string among them every value is kept
Series(values) ==
    IF /\ \A k \in 1..Len(values) : IsNumber(values[k])
       /\ \E k \in 1..Len(values) : values[k].type = "float"
        THEN [k \in 1..Len(values) |-> PyFloat(values[k].val)]
        ELSE values

\* pd.DataFrame(columns=[...])
DataFrame(columns) == [columns |-> columns, rows |-> <<>>]

\* df.loc[len(df.index)] = values: the row is appended at the next index
AppendRow(df, values) == [df EXCEPT !.rows = Append(@, Series(values))]

\* the values of column c of a frame, under the dtype of the column
ColumnValues(df, c) == Series([r \in 1..Len(df.rows) |-> df.rows[r][c]])

\* the text written for a value
CellText(x) ==
    [form |-> CASE x.type = "int" -> "integer"
                [] x.type = "float" -> "decimal"
                [] OTHER -> "text",
     val |-> x.val]

\* df.to_csv(name): the header and one line per row, in index order
to_csv(df) ==
    [columns |-> df.columns,
     rows |-> [r \in 1..Len(df.rows) |->
                  [c \in 1..Len(df.columns) |-> CellText(ColumnValues(df, c)[r])]]]

\* the texts pd.read_csv takes for a missing value
NaTexts == {"", "NA", "N/A", "NaN", "nan", "null", "None", "n/a", "NULL"}

\* the value pd.read_csv makes of the cells of one column: int64 when every
\* cell is an integer literal, float64 when every cell is a number or
\* missing, the texts themselves otherwise
ParseColumn(cells) ==
    LET missing(k) == cells[k].form = "text" /\ cells[k].val \in NaTexts
    IN  IF \A k \in 1..Len(cells) : cells[k].form = "integer"
            THEN [k \in 1..Len(cells) |-> PyInt(cells[k].val)]
        ELSE IF \A k \in 1..Len(cells) : cells[k].form # "text" \/ missing(k)
            THEN [k \in 1..Len(cells) |->
                     PyFloat(IF missing(k) THEN "nan" ELSE cells[k].val)]
        ELSE [k \in 1..Len(cells) |-> PyStr(cells[k].val)]

\* pd.read_csv(path)
read_csv(file) ==
    [columns |-> file.columns,
     rows |-> [r \in 1..Len(file.rows) |->
                  [c \in 1..Len(file.columns) |->
                      ParseColumn([q \in 1..Len(file.rows) |-> file.rows[q][c]])[r]]]]

\* df[name][k], k counted from 1
Lookup(df, name, k) ==
    df.rows[k][CHOOSE c \in 1..Len(df.columns) : df.columns[c] = name]

\* mutant of int: the value as read from the file
int_asRead(x) == x

\* int(x) of a number
int(x) == PyInt(x.val)

\* the file name is written in the working directory
WriteFile(name, content) ==
    [f \in DOMAIN files \cup {name} |-> IF f = name THEN content ELSE files[f]]

\* fiber_span.saveFiberSpan()
SaveFiberSpan ==
    /\ pc = "saveFiberSpan"
    /\ LET row(fib) == <<Number(fib.Length), Number(fib.gamma), Number(fib.beta2),
                         Number(fib.alpha_dB_per_m), PyFloat(fib.alpha_Np_per_m)>>
           RECURSIVE fill(_, _)
           fill(df, k) ==
               IF k > Len(fiber_span) THEN df
               ELSE fill(AppendRow(df, row(fiber_span[k])), k + 1)
           fiber_df == fill(DataFrame(<<"Length_m", "gamma_per_W_per_m",
                                        "beta2_s2_per_m", "alpha_dB_per_m",
                                        "alpha_Np_per_m">>), 1)
       IN  files' = WriteFile("Fiber_span.csv", to_csv(fiber_df))
    /\ pc' = "saveInputSignal"
    /\ UNCHANGED <<zvals, pulseMatrix, spectrumMatrix, loaded, args, timeFreq_test, err, returned, fiber_span, input_signal,
                   stepConfig, i, zinfo, z_so_far, z_array, dz_array,
                   dz_current_step_to_next_step, ssfm_result, ssfm_result_list,
                   pulse, spectrum, n>>

\* timeFreq.saveTimeFreq(): the frame of number_of_points and time_step
saveTimeFreq(timeFreq) ==
    to_csv(AppendRow(DataFrame(<<"number_of_points", "dt_s">>),
                     <<PyInt(timeFreq.number_of_points), Number(timeFreq.time_step)>>))

\* input_signal.saveInputSignal(), which also saves the grid
SaveInputSignal ==
    /\ pc = "saveInputSignal"
    /\ LET signal_df ==
               AppendRow(DataFrame(<<"Amax_sqrt(W)", "Pmax_W", "duration_s", "pulseType">>),
                         <<Number(input_signal.Amax), Number(input_signal.Pmax),
                           Number(input_signal.duration), PyStr("gaussian")>>)
           withSignal == WriteFile("Input_signal.csv", to_csv(signal_df))
       IN  files' = [f \in DOMAIN withSignal \cup {"timeFreq.csv"} |->
                        IF f = "timeFreq.csv" THEN saveTimeFreq(input_signal.timeFreq)
                        ELSE withSignal[f]]
    /\ pc' = "saveStepConfig"
    /\ UNCHANGED <<zvals, pulseMatrix, spectrumMatrix, loaded, args, timeFreq_test, err, returned, fiber_span, input_signal,
                   stepConfig, i, zinfo, z_so_far, z_array, dz_array,
                   dz_current_step_to_next_step, ssfm_result, ssfm_result_list,
                   pulse, spectrum, n>>

\* saveStepConfig(stepConfig)
SaveStepConfig ==
    /\ pc = "saveStepConfig"
    /\ LET approach == IF stepConfig.stepApproach.isStr
                           THEN PyStr(stepConfig.stepApproach.name)
                           ELSE PyInt(stepConfig.stepApproach.count)
           stepConfig_df ==
               AppendRow(DataFrame(<<"stepmode", "stepNumber_or_stepApproach",
                                     "SafetyFactor">>),
                         <<PyStr(stepConfig.stepMode), approach,
                           Number(stepConfig.stepSafetyFactor)>>)
       IN  files' = WriteFile("stepConfig.csv", to_csv(stepConfig_df))
    /\ pc' = "load_fiber_span"
    /\ UNCHANGED <<zvals, pulseMatrix, spectrumMatrix, loaded, args, timeFreq_test, err, returned, fiber_span, input_signal,
                   stepConfig, i, zinfo, z_so_far, z_array, dz_array,
                   dz_current_step_to_next_step, ssfm_result, ssfm_result_list,
                   pulse, spectrum, n>>

\* fiber_span = load_fiber_span(path)
LoadFiberSpan ==
    /\ pc = "load_fiber_span"
    /\ LET df == read_csv(files["Fiber_span.csv"])
           fiber_list ==
               [k \in 1..Len(df.rows) |->
                   fiber_class(Lookup(df, "Length_m", k).val,
                               Lookup(df, "gamma_per_W_per_m", k).val,
                               Lookup(df, "beta2_s2_per_m", k).val,
                               Lookup(df, "alpha_dB_per_m", k).val)]
       IN  loaded' = [fiber_span |-> fiber_list]
    /\ pc' = "load_InputSignal"
    /\ UNCHANGED <<zvals, pulseMatrix, spectrumMatrix, files, args, timeFreq_test, err, returned, fiber_span, input_signal,
                   stepConfig, i, zinfo, z_so_far, z_array, dz_array,
                   dz_current_step_to_next_step, ssfm_result, ssfm_result_list,
                   pulse, spectrum, n>>

\* input_signal = load_InputSignal(path), with its call of load_timeFreq:
\* timeFreq_class(int(number_of_points[0]), dt_s[0]).  np.linspace raises
\* TypeError for a number of samples that is not an integer.
LoadInputSignal ==
    /\ pc = "load_InputSignal"
    /\ LET df == read_csv(files["Input_signal.csv"])
           grid_df == read_csv(files["timeFreq.csv"])
           number_of_points == int(Lookup(grid_df, "number_of_points", 1))
           dt_s == Lookup(grid_df, "dt_s", 1)
       IN  IF number_of_points.type = "int"
               THEN /\ loaded' =
                           [fiber_span |-> loaded.fiber_span,
                            input_signal |->
                                input_signal_class(
                                    timeFreq_class(number_of_points.val, dt_s.val),
                                    Lookup(df, "Amax_sqrt(W)", 1).val,
                                    Lookup(df, "duration_s", 1).val)]
                    /\ pc' = "load_StepConfig"
                    /\ returned' = returned
               ELSE /\ loaded' = loaded
                    /\ pc' = "raised"
                    /\ returned' = Raise("TypeError")
    /\ UNCHANGED <<zvals, pulseMatrix, spectrumMatrix, files, args, timeFreq_test, err, fiber_span, input_signal,
                   stepConfig, i, zinfo, z_so_far, z_array, dz_array,
                   dz_current_step_to_next_step, ssfm_result, ssfm_result_list,
                   pulse, spectrum, n>>

\* stepConfig = load_StepConfig(path); return fiber_span, input_signal, stepConfig
LoadStepConfig ==
    /\ pc = "load_StepConfig"
    /\ LET df == read_csv(files["stepConfig.csv"])
           stepNumber_or_stepApproach == Lookup(df, "stepNumber_or_stepApproach", 1)
       IN  loaded' =
               [fiber_span |-> loaded.fiber_span,
                input_signal |-> loaded.input_signal,
                stepConfig |->
                    [stepMode |-> Lookup(df, "stepmode", 1).val,
                     stepApproach |->
                         IF stepNumber_or_stepApproach.type = "str"
                             THEN StrApproach(stepNumber_or_stepApproach.val)
                             ELSE IntApproach(stepNumber_or_stepApproach.val),
                     stepSafetyFactor |-> Lookup(df, "SafetyFactor", 1).val]]
    /\ returned' = Return(loaded')
    /\ pc' = "done"
    /\ UNCHANGED <<zvals, pulseMatrix, spectrumMatrix, files, args, timeFreq_test, err, fiber_span, input_signal,
                   stepConfig, i, zinfo, z_so_far, z_array, dz_array,
                   dz_current_step_to_next_step, ssfm_result, ssfm_result_list,
                   pulse, spectrum, n>>

\* a configuration as SSFM is given it, about to be saved
InitL ==
    /\ fiber_span \in FiberSpans
    /\ stepConfig \in StepConfigs({fiber_span[k].Length : k \in 1..Len(fiber_span)})
    /\ \E dt \in {1, 2} :
           input_signal = input_signal_class(timeFreq_class(GridPoints, dt), 2, 1)
    /\ \E type \in NumberTypes : args = [number |-> type]
    /\ pc = "saveFiberSpan"
    /\ files = <<>>
    /\ loaded = <<>>
    /\ zvals = <<>>
    /\ pulseMatrix = <<>>
    /\ spectrumMatrix = <<>>
    /\ timeFreq_test = input_signal.timeFreq
    /\ i = 1
    /\ zinfo = <<<<>>, <<>>>>
    /\ z_so_far = 0
    /\ z_array = <<>>
    /\ dz_array = <<>>
    /\ dz_current_step_to_next_step = 0
    /\ ssfm_result = NoResult
    /\ ssfm_result_list = <<>>
    /\ pulse = ZeroField(0)
    /\ spectrum = ZeroField(0)
    /\ n = 0
    /\ err = "below"
    /\ returned = Running

NextL ==
    \/ SaveFiberSpan
    \/ SaveInputSignal
    \/ SaveStepConfig
    \/ LoadFiberSpan
    \/ LoadInputSignal
    \/ LoadStepConfig

SpecL == InitL /\ [][NextL]_vars

(***************************************************************************)
(* Claims about the schedule (specification SpecZ)                         *)
(***************************************************************************)
\* getZsteps has returned zinfo for the current fiber
ScheduleReturned == pc = "newResult"

FixedMode == stepConfig.stepMode = "fixed"
StringApproach ==
    stepConfig.stepApproach.isStr /\ stepConfig.stepApproach.name \in {"cautious", "approx"}
DegenerateFiber == fiber.gamma = 0 \/ fiber.beta2 = 0

\* zstep_NL at position z_m for the current fiber, signal and configuration
StepAt(z_m) ==
    zstep_NL(z_m, fiber, input_signal, stepConfig.stepApproach.name,
             stepConfig.stepSafetyFactor)

\* C1: every schedule getZsteps returns has zs[0] = 0, zs[last] = L, every
\* dzs[k] > 0, sum(dzs) = L and len(z) = len(dzs) + 1.
C1_ScheduleWellFormed ==
    ScheduleReturned =>
        /\ Len(zinfo[1]) = Len(zinfo[2]) + 1
        /\ zinfo[1][1] = 0
        /\ Last(zinfo[1]) = fiber.Length
        /\ \A k \in 1..Len(zinfo[2]) : zinfo[2][k] > 0
        /\ SeqSum(zinfo[2]) = fiber.Length

\* C7: with gamma = 0 or beta2 = 0 the schedule is exactly one step of size
\* L, z = [0, L] and dzs = [L], in every step mode and approach.
C7_DegenerateSingleStep ==
    (ScheduleReturned /\ DegenerateFiber) =>
        zinfo = << <<0, fiber.Length>>, <<fiber.Length>> >>

\* C8: fixed mode with an integer count M >= 1 gives exactly M steps,
\* z_k = k*L/M for k = 0..M, and every step equal to L/M.
C8_FixedCountUniform ==
    (ScheduleReturned /\ FixedMode /\ ~stepConfig.stepApproach.isStr) =>
        LET M == stepConfig.stepApproach.count
        IN  /\ Len(zinfo[2]) = M
            /\ Len(zinfo[1]) = M + 1
            /\ \A k \in 0..M : zinfo[1][k + 1] * M = k * fiber.Length
            /\ \A k \in 1..M : zinfo[2][k] * M = fiber.Length

\* a fixed count of three steps over a fiber of three length units
C8_Witness ==
    /\ ScheduleReturned /\ FixedMode /\ ~stepConfig.stepApproach.isStr
    /\ stepConfig.stepApproach.count = 3
    /\ zinfo = << <<0, 1, 2, 3>>, <<1, 1, 1>> >>

\* C9: fixed mode with 'cautious' or 'approx', d = zstep_NL at z = 0: the z
\* positions are the multiples 0, d, 2d, ... below L followed by L; every
\* step but the last equals d and the last is the residual, 0 < last <= d.
C9_FixedStringMultiples ==
    (ScheduleReturned /\ FixedMode /\ StringApproach) =>
        LET d  == StepAt(0)
            zs == zinfo[1]
            dzs == zinfo[2]
            M  == Len(dzs)
        IN  /\ M >= 1 /\ Len(zs) = M + 1
            /\ \A k \in 1..M : zs[k] = (k - 1) * d /\ zs[k] < fiber.Length
            /\ M * d >= fiber.Length
            /\ zs[M + 1] = fiber.Length
            /\ \A k \in 1..(M - 1) : dzs[k] = d
            /\ dzs[M] = fiber.Length - (M - 1) * d
            /\ 0 < dzs[M] /\ dzs[M] <= d

\* a schedule of two whole steps and a shorter residual step
C9_Witness ==
    /\ ScheduleReturned /\ FixedMode /\ StringApproach
    /\ StepAt(0) = 2
    /\ zinfo = << <<0, 2, 4, 5>>, <<2, 2, 1>> >>

\* C10: variable mode steps by zstep_NL(z) from z while z + zstep_NL(z) <= L;
\* when the computed step exceeds the remaining distance the final step is
\* exactly L minus the last position reached; no step is larger than L.
C10_VariableLoopSchedule ==
    (ScheduleReturned /\ ~FixedMode) =>
        LET zs == zinfo[1]
            dzs == zinfo[2]
            M  == Len(dzs)
        IN  /\ M >= 1 /\ Len(zs) = M + 1
            /\ zs[1] = 0
            /\ \A k \in 1..(M - 1) :
                   /\ dzs[k] = StepAt(zs[k])
                   /\ zs[k] + dzs[k] <= fiber.Length
                   /\ zs[k + 1] = zs[k] + dzs[k]
            /\ StepAt(zs[M]) > fiber.Length - zs[M]
            /\ dzs[M] = fiber.Length - zs[M]
            /\ zs[M + 1] = fiber.Length
            /\ \A k \in 1..M : dzs[k] <= fiber.Length

\* attenuation makes the steps grow (1 then 2) until the computed step (8)
\* exceeds the distance that is left (1)
C10_Witness ==
    /\ ScheduleReturned /\ ~FixedMode
    /\ fiber.alpha_Np_per_m > 0
    /\ zinfo = << <<0, 1, 3, 4>>, <<1, 2, 1>> >>
    /\ StepAt(3) = 8

\* every quotient formed by zstep_NL and linspace is exact
ExactArithmetic ==
    /\ \A z_m \in 0..fiber.Length :
           (fiber.gamma # 0 /\ fiber.beta2 # 0) =>
               /\ (Abs(fiber.beta2) * ExpTwoAlphaZ(fiber.alpha_Np_per_m, z_m))
                      % ((fiber.gamma * input_signal.Pmax * input_signal.duration) ^ 2
                            * stepConfig.stepSafetyFactor) = 0
               /\ (Abs(fiber.beta2) * ExpTwoAlphaZ(fiber.alpha_Np_per_m, z_m))
                      % ((fiber.gamma * input_signal.Pmax) ^ 2
                            * (input_signal.duration * input_signal.timeFreq.time_step)
                            * stepConfig.stepSafetyFactor) = 0
    /\ ~stepConfig.stepApproach.isStr =>
           fiber.Length % stepConfig.stepApproach.count = 0

(***************************************************************************)
(* Claims about the runs of SSFM (specification Spec)                      *)
(***************************************************************************)
\* the positions at which the result record of the current fiber exists and
\* is not yet appended
InFiber ==
    pc \in {"nonlinearity", "dispAndLoss", "toTimeDomain", "storePulse",
            "storeSpectrum", "endFiber"}

\* the result records that exist: those appended, then the one in progress
AllResults ==
    IF InFiber THEN Append(ssfm_result_list, ssfm_result) ELSE ssfm_result_list

\* the rows of record k that have been written so far, in each matrix
PulseRowsWritten(k) ==
    IF k <= Len(ssfm_result_list) THEN Len(AllResults[k].pulseMatrix)
    ELSE IF pc \in {"storeSpectrum"} THEN n + 2 ELSE n + 1

SpectrumRowsWritten(k) ==
    IF k <= Len(ssfm_result_list) THEN Len(AllResults[k].spectrumMatrix) ELSE n + 1

\* the pulse the caller passed to SSFM
CallerPulse ==
    getPulse(input_signal.timeFreq.number_of_points, input_signal.Amax,
             input_signal.duration)

\* the time-domain field launched into fiber k of the link
LaunchedField(k) ==
    IF k = 1 THEN CallerPulse ELSE Last(AllResults[k - 1].pulseMatrix)

\* what one step of size d in fiber fib makes of the time-domain field a:
\* the kick from the power of a itself, the transform, the linear factor
SpectrumAfterStep(a, fib, d) ==
    [hist |-> a.hist \o
                 <<[op |-> "nonlinearity", gamma |-> fib.gamma,
                    src |-> Len(a.hist), dz |-> d],
                   [op |-> "fft"],
                   [op |-> "disp_and_loss", beta2 |-> fib.beta2,
                    alpha |-> fib.alpha_Np_per_m, dz |-> d]>>,
     len |-> a.len]

\* and the transform back to the time domain
PulseAfterStep(a, fib, d) ==
    [hist |-> SpectrumAfterStep(a, fib, d).hist \o <<[op |-> "ifft"]>>, len |-> a.len]

\* C2: the time-domain field that segment i+1 starts from, row 0 of its pulse
\* matrix and the field its first step acts on, is the last row of segment
\* i's pulse matrix.
C2_FieldHandedOver ==
    /\ \A k \in 2..Len(AllResults) :
           AllResults[k].pulseMatrix[1] = Last(AllResults[k - 1].pulseMatrix)
    /\ (pc = "nonlinearity" /\ n = 0 /\ i > 1) =>
           pulse = Last(ssfm_result_list[i - 1].pulseMatrix)

\* the first step of the second fiber is about to act on the output of the first
C2_Witness ==
    /\ pc = "nonlinearity" /\ n = 0 /\ i = 2
    /\ Len(ssfm_result_list) = 1
    /\ Len(ssfm_result_list[1].pulseMatrix) >= 3
    /\ pulse = Last(ssfm_result_list[1].pulseMatrix)
    /\ pulse # CallerPulse

\* C3: in every segment result row 0 of the pulse matrix is the field launched
\* into the segment, row 0 of the spectrum matrix is the spectrum of that
\* field, and row k of each matrix is the field after k completed steps.
C3_RowsAreFieldsAlongFiber ==
    \A k \in 1..Len(AllResults) :
        LET r == AllResults[k]
        IN  /\ r.pulseMatrix[1] = LaunchedField(k)
            /\ r.spectrumMatrix[1] = getSpectrumFromPulse(LaunchedField(k))
            /\ \A row \in 2..PulseRowsWritten(k) :
                   r.pulseMatrix[row] =
                       PulseAfterStep(r.pulseMatrix[row - 1], r.fiber, r.zinfo[2][row - 1])
            /\ \A row \in 2..SpectrumRowsWritten(k) :
                   r.spectrumMatrix[row] =
                       SpectrumAfterStep(r.pulseMatrix[row - 1], r.fiber, r.zinfo[2][row - 1])

\* C4: in every step the nonlinear kick, computed from the power of the
\* current field, comes before the linear factor in the frequency domain;
\* the field is then taken back to the time domain and both results are
\* recorded, for every step of the schedule.
C4_KickThenLinearThenRecord ==
    /\ \A k \in 1..Len(AllResults) :
           LET r == AllResults[k]
           IN  /\ \A row \in 2..SpectrumRowsWritten(k) :
                      r.spectrumMatrix[row] =
                          SpectrumAfterStep(r.pulseMatrix[row - 1], r.fiber,
                                            r.zinfo[2][row - 1])
               /\ \A row \in 2..PulseRowsWritten(k) :
                      r.pulseMatrix[row] =
                          PulseAfterStep(r.pulseMatrix[row - 1], r.fiber,
                                         r.zinfo[2][row - 1])
               /\ k <= Len(ssfm_result_list) =>
                      /\ Len(r.pulseMatrix) = Len(r.zinfo[2]) + 1
                      /\ Len(r.spectrumMatrix) = Len(r.zinfo[2]) + 1
    /\ pc = "dispAndLoss" =>
           pulse.hist = ssfm_result.pulseMatrix[n + 1].hist \o
                            <<[op |-> "nonlinearity", gamma |-> fiber.gamma,
                               src |-> Len(ssfm_result.pulseMatrix[n + 1].hist),
                               dz |-> dz]>>
    /\ pc = "toTimeDomain" =>
           spectrum = SpectrumAfterStep(ssfm_result.pulseMatrix[n + 1], fiber, dz)
    /\ pc \in {"storePulse", "storeSpectrum"} =>
           /\ spectrum = SpectrumAfterStep(ssfm_result.pulseMatrix[n + 1], fiber, dz)
           /\ pulse = PulseAfterStep(ssfm_result.pulseMatrix[n + 1], fiber, dz)

\* a finished segment of three steps in a fiber with nonlinearity and dispersion
C4_Witness ==
    /\ Len(ssfm_result_list) >= 1
    /\ ssfm_result_list[1].fiber.gamma # 0
    /\ ssfm_result_list[1].fiber.beta2 # 0
    /\ Len(ssfm_result_list[1].zinfo[2]) = 3
    /\ Last(ssfm_result_list[1].pulseMatrix) =
           PulseAfterStep(ssfm_result_list[1].pulseMatrix[3], ssfm_result_list[1].fiber,
                          ssfm_result_list[1].zinfo[2][3])

Written(field) == field.hist # <<>>

\* what C5 says of one transition of a run
C5_Transition ==
    /\ i' \in {i, i + 1}
    /\ i' = i + 1 => pc = "endFiber"
    /\ ssfm_result_list' # ssfm_result_list =>
           /\ ssfm_result_list' = Append(ssfm_result_list, ssfm_result)
           /\ ssfm_result.fiber = fiber_span[Len(ssfm_result_list')]
           /\ n = Len(ssfm_result.zinfo[2])
           /\ \A r \in 1..Len(ssfm_result.pulseMatrix) :
                  Written(ssfm_result.pulseMatrix[r]) /\ Written(ssfm_result.spectrumMatrix[r])
    /\ n' # n =>
           \/ n' = n + 1 /\ n' <= Len(zinfo[2]) /\ pc = "storeSpectrum"
           \/ n' = 0 /\ pc = "newResult"
    /\ pc = "nonlinearity" => Last(pulse'.hist).dz = zinfo[2][n + 1]
    /\ pc # "newResult" =>
           /\ Len(ssfm_result'.pulseMatrix) = Len(ssfm_result.pulseMatrix)
           /\ Len(ssfm_result'.spectrumMatrix) = Len(ssfm_result.spectrumMatrix)
           /\ \A r \in 1..Len(ssfm_result.pulseMatrix) :
                  ssfm_result'.pulseMatrix[r] # ssfm_result.pulseMatrix[r] =>
                      /\ r = n + 2
                      /\ ~Written(ssfm_result.pulseMatrix[r])
                      /\ \A q \in 1..(r - 1) :
                             /\ Written(ssfm_result.pulseMatrix[q])
                             /\ Written(ssfm_result.spectrumMatrix[q])
           /\ \A r \in 1..Len(ssfm_result.spectrumMatrix) :
                  ssfm_result'.spectrumMatrix[r] # ssfm_result.spectrumMatrix[r] =>
                      /\ r = n + 2
                      /\ ~Written(ssfm_result.spectrumMatrix[r])
                      /\ Written(ssfm_result.pulseMatrix[r])
                      /\ \A q \in 1..(r - 1) :
                             /\ Written(ssfm_result.pulseMatrix[q])
                             /\ Written(ssfm_result.spectrumMatrix[q])

\* C5: segments are processed in link order, the steps of a segment in
\* schedule order, row k+1 of either matrix is written only after rows 0..k,
\* exactly M steps are executed per segment and no row is written twice.
C5_OrderedRun == [][C5_Transition]_vars

\* a finished run over two fibers, the second in three steps
C5_Witness ==
    /\ pc = "done"
    /\ Len(ssfm_result_list) = 2
    /\ Len(ssfm_result_list[2].zinfo[2]) = 3
    /\ \A r \in 1..4 : Written(ssfm_result_list[2].pulseMatrix[r])

\* C6: a run over a link of n fibers returns n result records, the i-th
\* referring to the i-th fiber and holding its schedule and two matrices of
\* (M_i + 1) rows of N samples.
C6_OneRecordPerFiber ==
    pc = "done" =>
        /\ Len(ssfm_result_list) = Len(fiber_span)
        /\ \A k \in 1..Len(ssfm_result_list) :
               LET r == ssfm_result_list[k]
                   M == Len(r.zinfo[2])
               IN  /\ r.fiber = fiber_span[k]
                   /\ Len(r.zinfo[1]) = M + 1
                   /\ Last(r.zinfo[1]) = r.fiber.Length
                   /\ Len(r.pulseMatrix) = M + 1
                   /\ Len(r.spectrumMatrix) = M + 1
                   /\ \A row \in 1..(M + 1) :
                          /\ r.pulseMatrix[row].len = input_signal.timeFreq.number_of_points
                          /\ r.spectrumMatrix[row].len = input_signal.timeFreq.number_of_points

\* a returned list of two records with schedules of different lengths
C6_Witness ==
    /\ pc = "done"
    /\ Len(fiber_span) = 2
    /\ Len(ssfm_result_list) = 2
    /\ Len(ssfm_result_list[1].pulseMatrix) = 3
    /\ Len(ssfm_result_list[2].pulseMatrix) = 2
    /\ fiber_span[1] # fiber_span[2]

(***************************************************************************)
(* Claims about the variable schedule under attenuation                    *)
(***************************************************************************)
VariableWithLoss ==
    ScheduleReturned /\ ~FixedMode /\ fiber.alpha_Np_per_m > 0

\* C11 as stated: in variable mode with alpha_Np > 0 the step sizes are
\* non-decreasing along z, dzs[k] <= dzs[k+1] for every k, the last step
\* included.
C11_MonotoneWithLastStep ==
    VariableWithLoss =>
        \A k \in 1..(Len(zinfo[2]) - 1) : zinfo[2][k] <= zinfo[2][k + 1]

\* C11 amended: in variable mode with alpha_Np > 0 the step sizes the loop
\* takes are non-decreasing along z, at every iteration and in the returned
\* schedule; the last step, the distance that is left, is outside the
\* comparison and is never larger than the step computed at its position.
C11_MonotoneLoopSteps ==
    /\ (pc = "variableLoop" /\ fiber.alpha_Np_per_m > 0) =>
           /\ \A k \in 1..(Len(dz_array) - 1) : dz_array[k] <= dz_array[k + 1]
           /\ dz_array # <<>> => Last(dz_array) <= dz_current_step_to_next_step
    /\ VariableWithLoss =>
           /\ \A k \in 1..(Len(zinfo[2]) - 2) : zinfo[2][k] <= zinfo[2][k + 1]
           /\ Last(zinfo[2]) <= StepAt(zinfo[1][Len(zinfo[2])])

\* growing loop steps 1, 2 and then a remainder of 1
C11_Witness ==
    /\ VariableWithLoss
    /\ ~DegenerateFiber
    /\ Len(zinfo[2]) = 3
    /\ zinfo[2][1] < zinfo[2][2]
    /\ zinfo[2][3] < zinfo[2][2]

(***************************************************************************)
(* Claims about the signal parameters of the schedule                      *)
(***************************************************************************)
ComputingSchedule == pc \in {"getZsteps", "variableLoop", "newResult"}

\* C12: for every segment, the first included, the peak power the schedule
\* is computed from is the maximum of |a|^2 over the samples of the field
\* launched into that segment.
C12_PeakPowerOfLaunchedField ==
    ComputingSchedule => input_signal.Pmax \in MaxPower(input_signal.amplitude)

\* the dispersion beta2*dz a field has accumulated over the steps of its history
RECURSIVE AccumulatedDispersion(_)
AccumulatedDispersion(hist) ==
    IF hist = <<>> THEN 0
    ELSE LET h == hist[Len(hist)]
             rest == AccumulatedDispersion(SubSeq(hist, 1, Len(hist) - 1))
         IN  IF h.op = "disp_and_loss" THEN rest + h.beta2 * h.dz ELSE rest

\* no step of the history had a nonlinear phase
LinearHistory(hist) ==
    \A k \in 1..Len(hist) : hist[k].op = "nonlinearity" => hist[k].gamma = 0

\* the characteristic duration of a field, in the sense of the duration_s of
\* the launched pulse: duration_s for the launched pulse itself; more than
\* that once the unchirped pulse has accumulated dispersion and no
\* nonlinear phase (loss only scales the field); any lattice value otherwise
DurationOfField(field) ==
    LET launched == field.hist[1].duration
    IN  IF Len(field.hist) = 1 THEN {launched}
        ELSE IF LinearHistory(field.hist) /\ AccumulatedDispersion(field.hist) # 0
            THEN {launched + 1, launched + 2}
        ELSE 1..(launched + 2)

\* C13: the duration the schedule of segment i+1 is computed from is that of
\* the field at the boundary between segment i and segment i+1, not the one
\* carried over from the launched signal.
C13_DurationOfBoundaryField ==
    ComputingSchedule => input_signal.duration \in DurationOfField(input_signal.amplitude)

(***************************************************************************)
(* Claims about failing energy checks                                      *)
(***************************************************************************)
InTransform == pc \in {"dispAndLoss", "toTimeDomain"}

\* the rows after row k (1-based) of both matrices of the current record are
\* as allocated
RowsAfterUnwritten(k) ==
    \A r \in (k + 1)..Len(ssfm_result.pulseMatrix) :
        ~Written(ssfm_result.pulseMatrix[r]) /\ ~Written(ssfm_result.spectrumMatrix[r])

\* what C14 says of one transition of a run
C14_Transition ==
    /\ InTransform =>
           /\ err' \in EnergyErrors
           /\ err' \in {"notBelow", "nan"} =>
                  /\ pc' = "raised"
                  /\ returned' = Raise("AssertionError")
                  /\ ssfm_result' = ssfm_result
                  /\ ssfm_result_list' = ssfm_result_list
           /\ err' = "below" => pc' # "raised"
    /\ pc' = "raised" => InTransform /\ RowsAfterUnwritten(n + 1)
    /\ pc = "raised" =>
           /\ pc' = "raised"
           /\ i' = i
           /\ ssfm_result' = ssfm_result
           /\ ssfm_result_list' = ssfm_result_list

\* C14: every forward and every inverse transform of the stepping loop is
\* energy-checked; when err is not below the tolerance or is NaN the run
\* aborts at that step: no later row of either matrix is written and no later
\* segment is started.
C14_EnergyCheckAborts == [][C14_Transition]_vars

\* the inverse transform of the second step of the first of two fibers
\* fails on NaN
C14_Witness ==
    /\ pc = "raised"
    /\ err = "nan"
    /\ Len(fiber_span) = 2 /\ i = 1
    /\ n = 1 /\ Len(zinfo[2]) > 2
    /\ Written(spectrum) /\ Last(spectrum.hist).op = "disp_and_loss"
    /\ Len(spectrum.hist) > Len(pulse.hist)
    /\ RowsAfterUnwritten(2)

\* C15: when a step fails in segment j, the caller is handed the result
\* records of segments 0..j-1 together with the error, and the partially
\* filled record of segment j is not among them.
C15_CompletedRecordsWithError ==
    pc = "raised" =>
        /\ returned.kind = "raise"
        /\ "records" \in DOMAIN returned
        /\ returned.records = ssfm_result_list
        /\ Len(returned.records) = i - 1
        /\ \A k \in 1..Len(returned.records) : returned.records[k].fiber = fiber_span[k]

(***************************************************************************)
(* Claims about rejected parameters                                        *)
(***************************************************************************)
InvalidStepConfig ==
    \/ stepConfig.stepSafetyFactor <= 0
    \/ stepConfig.stepMode \notin {"fixed", "variable"}

\* C16: a step configuration whose safety factor is <= 0 or whose step mode
\* is neither 'fixed' nor 'variable' is rejected before any schedule is
\* computed; it never yields a schedule.
C16_InvalidConfigYieldsNoSchedule ==
    InvalidStepConfig =>
        /\ pc \notin {"variableLoop", "newResult"}
        /\ zinfo = <<<<>>, <<>>>>

\* what C17 rejects
InvalidGridArgs(a) == a[1] < 2 \/ a[2] <= 0
InvalidFiberArgs(a) == a[1] <= 0 \/ a[4] < 0

\* C17: constructing a grid with N < 2 or dt <= 0, or a fiber with L <= 0 or
\* alpha_dB < 0, fails with an InvalidParameter error; no grid or fiber
\* object with such values exists afterwards.
C17_InvalidObjectsRejected ==
    /\ timeFreq_test # NoTimeFreq =>
           timeFreq_test.number_of_points >= 2 /\ timeFreq_test.time_step > 0
    /\ \A k \in 1..Len(fiber_span) :
           fiber_span[k].Length > 0 /\ fiber_span[k].alpha_dB_per_m >= 0
    /\ (Len(args) = 2 /\ InvalidGridArgs(args)) => returned = Raise("InvalidParameter")
    /\ (Len(args) = 4 /\ InvalidFiberArgs(args)) => returned = Raise("InvalidParameter")

(***************************************************************************)
(* Claims about the grid and the transforms (specification SpecG)          *)
(***************************************************************************)
\* C19: for a grid built from N and dt, the time axis has N uniformly spaced
\* samples whose spacing t[1]-t[0] equals dt (the stored time_step), its mean
\* is zero, and the frequency axis has spacing 1/(N*dt).
C19_GridAxes ==
    (timeFreq_test # NoTimeFreq /\ timeFreq_test.time_step > 0) =>
        LET N == timeFreq_test.number_of_points
            t == timeFreq_test.t
        IN  /\ Len(t.num) = N
            /\ \A k \in 1..(N - 1) : RatEq(AxisDiff(t, k + 1, k), AxisDiff(t, 2, 1))
            /\ RatEq(AxisDiff(t, 2, 1), <<timeFreq_test.time_step, 1>>)
            /\ SeqSum(t.num) = 0
            /\ RatEq(timeFreq_test.freq_step, <<1, N * timeFreq_test.time_step>>)

\* C18: the variable-step loop is bounded by the configured maximum number
\* of steps: when it would produce more steps than that it stops with a
\* ScheduleOverflow error instead of continuing.
C18_LoopBoundedByMaximum ==
    stepConfig.stepMode # "fixed" =>
        /\ pc = "variableLoop" =>
               /\ Len(dz_array) <= stepConfig.maxSteps
               /\ Len(dz_array) = stepConfig.maxSteps =>
                      ~VariableLoopCondition(z_so_far, dz_current_step_to_next_step,
                                             fiber.Length)
        /\ pc = "newResult" => Len(zinfo[2]) <= stepConfig.maxSteps
        /\ returned.kind = "raise" => returned = Raise("ScheduleOverflow")

SameField(x, a) ==
    /\ ~x.garbled
    /\ x.domain = a.domain
    /\ x.order = a.order
    /\ RatEq(x.scale, a.scale)

TransformRaised == pc = "raised" /\ returned = Raise("AssertionError")

\* C20 as stated: for every field a and every N, even or odd,
\* getPulseFromSpectrum(f, getSpectrumFromPulse(t, a)) = a.
C20_RoundTripOfEveryField ==
    (pc = "roundTrip" \/ TransformRaised) =>
        /\ pc = "roundTrip"
        /\ SameField(pulse, SampledField(timeFreq_test.number_of_points))

\* C20 amended: for every N, even or odd, and every field a on which the
\* energy checks of both transforms pass, the round trip gives a: the
\* spectrum holds the bins shifted and times t[1]-t[0], the inverse shift
\* puts every bin back in place and the inverse divides by the same factor.
C20_RoundTripWhenChecksPass ==
    /\ pc \in {"inverse", "roundTrip"} =>
           /\ ~spectrum.garbled /\ spectrum.domain = "frequency"
           /\ spectrum.order = fftshift(SampledField(timeFreq_test.number_of_points).order)
           /\ RatEq(spectrum.scale, AxisDiff(timeFreq_test.t, 2, 1))
    /\ pc = "roundTrip" =>
           SameField(pulse, SampledField(timeFreq_test.number_of_points))

\* a completed round trip on a grid with an odd number of points
C20_Witness ==
    /\ pc = "roundTrip"
    /\ timeFreq_test.number_of_points % 2 = 1
    /\ timeFreq_test.time_step = 2
    /\ spectrum.order # pulse.order
    /\ pulse.order = <<1, 2, 3>>

(***************************************************************************)
(* Claims about the field at the end of a segment                          *)
(***************************************************************************)
\* the field descends from the field a0: its history continues that of a0
Descends(field, a0) ==
    /\ Len(field.hist) >= Len(a0.hist)
    /\ SubSeq(field.hist, 1, Len(a0.hist)) = a0.hist

\* the operations the field has undergone since a0
Since(field, a0) == SubSeq(field.hist, Len(a0.hist) + 1, Len(field.hist))

\* the linear factor of the operation is 1 at every frequency
UnitFactor(h) == h.beta2 * h.dz = 0 /\ h.alpha * h.dz = 0

\* a time-domain field with the power of a0 in every sample: since a0 it has
\* only been multiplied by phases exp(i*phi(t)) and taken to the spectral
\* domain and back with the linear factor 1 in between
SamePower(field, a0) ==
    /\ Descends(field, a0)
    /\ LET ops == Since(field, a0)
       IN  \A k \in 1..Len(ops) :
               \/ ops[k].op = "nonlinearity"
                     /\ (k = 1 \/ ops[k - 1].op = "ifft")
               \/ ops[k].op = "fft"
                     /\ k + 2 <= Len(ops)
                     /\ ops[k + 1].op = "disp_and_loss"
                     /\ ops[k + 2].op = "ifft"
               \/ ops[k].op = "disp_and_loss" /\ UnitFactor(ops[k])
               \/ ops[k].op = "ifft"

\* the phase a field of the power of a0 has gathered since a0, in units of
\* |a0|^2: gamma*dz of every kick, each taken from the power of the field
\* it is applied to
RECURSIVE KickPhase(_, _)
KickPhase(field, a0) ==
    IF Len(field.hist) <= Len(a0.hist) THEN 0
    ELSE LET h == field.hist[Len(field.hist)]
             before == [field EXCEPT !.hist = SubSeq(@, 1, Len(@) - 1)]
         IN  KickPhase(before, a0) +
                 (IF h.op = "nonlinearity" /\ h.src = Len(before.hist)
                      THEN h.gamma * h.dz ELSE 0)

\* a segment with no dispersion and no attenuation
SPMFiber(fib) == fib.beta2 = 0 /\ fib.alpha_Np_per_m = 0

\* C21: in a segment with no dispersion and no attenuation every written
\* row of the pulse matrix has the power of row 0 in every sample, and the
\* last row of a completed segment is a0*exp(i*gamma*|a0|^2*L), whatever the
\* number and sizes of the steps.
C21_SelfPhaseModulation ==
    \A k \in 1..Len(AllResults) :
        LET res == AllResults[k]
            a0 == res.pulseMatrix[1]
        IN  SPMFiber(res.fiber) =>
                /\ \A r \in 1..PulseRowsWritten(k) :
                       SamePower(res.pulseMatrix[r], a0)
                /\ k <= Len(ssfm_result_list) =>
                       KickPhase(Last(res.pulseMatrix), a0)
                           = res.fiber.gamma * res.fiber.Length

\* a run has returned with a dispersion-free lossless nonlinear segment of
\* several steps
C21_Witness ==
    /\ pc = "done"
    /\ \E k \in 1..Len(ssfm_result_list) :
           /\ SPMFiber(ssfm_result_list[k].fiber)
           /\ ssfm_result_list[k].fiber.gamma > 0
           /\ Len(ssfm_result_list[k].zinfo[2]) >= 2

\* the attenuation alpha*dz a field has accumulated over the steps of its history
RECURSIVE AccumulatedLoss(_)
AccumulatedLoss(hist) ==
    IF hist = <<>> THEN 0
    ELSE LET h == hist[Len(hist)]
             rest == AccumulatedLoss(SubSeq(hist, 1, Len(hist) - 1))
         IN  IF h.op = "disp_and_loss" THEN rest + h.alpha * h.dz ELSE rest

\* a time-domain field that a0 has become by linear steps only: kicks of
\* gamma = 0 and transform pairs with a linear factor in between
LinearSteps(field, a0) ==
    /\ Descends(field, a0)
    /\ LinearHistory(Since(field, a0))
    /\ LET ops == Since(field, a0)
       IN  /\ Len(ops) % 4 = 0
           /\ \A k \in 1..Len(ops) :
                  ops[k].op = CASE k % 4 = 1 -> "nonlinearity"
                                [] k % 4 = 2 -> "fft"
                                [] k % 4 = 3 -> "disp_and_loss"
                                [] OTHER -> "ifft"

\* the exponents of the linear factor exp(i*beta2*w^2/2*z - alpha/2*z) that
\* takes a0 to such a field: powers of one factor multiply by adding exponents
LinearFactor(field, a0) ==
    <<AccumulatedDispersion(Since(field, a0)), AccumulatedLoss(Since(field, a0))>>

\* the linear factor of one segment over the whole of fiber fib
SegmentFactor(fib) == <<fib.beta2 * fib.Length, fib.alpha_Np_per_m * fib.Length>>

\* the fiber of twice the length
Doubled(fib) == fiber_class(2 * fib.Length, fib.gamma, fib.beta2, fib.alpha_dB_per_m)

\* the field a run returns: the last row of the last record
FinalField == Last(Last(ssfm_result_list).pulseMatrix)

C23_Transition ==
    /\ fiber_span' = fiber_span
    /\ input_signal' = input_signal
    /\ stepConfig' = stepConfig
    /\ (pc' = "newResult" /\ returned'.kind = "return") => zinfo' = returned'.value

\* C23: computing the schedule twice for the same fiber, the same signal and
\* the same step configuration yields identical z and dz arrays; getZsteps
\* keeps no state between calls and does not change its inputs.
C23_ScheduleIdempotent == [][C23_Transition]_vars

\* the second call has returned a variable-step schedule of several steps
C23_Witness ==
    /\ pc = "newResult"
    /\ returned.kind = "return"
    /\ stepConfig.stepMode = "variable"
    /\ Len(zinfo[2]) >= 3
    /\ zinfo[2][1] > 0

(***************************************************************************)
(* Claims about saved configurations (specification SpecL)                 *)
(***************************************************************************)
\* C24: saving and then loading a run configuration returns the stored
\* parameter values unchanged: every fiber of the span with its L, gamma,
\* beta2 and alpha_dB in the same order, the grid's N and dt, and the three
\* entries of the step configuration.
C24_SaveLoadRoundTrip ==
    /\ pc # "raised"
    /\ pc = "done" =>
           /\ returned.kind = "return"
           /\ Len(returned.value.fiber_span) = Len(fiber_span)
           /\ \A k \in 1..Len(fiber_span) :
                  /\ returned.value.fiber_span[k].Length = fiber_span[k].Length
                  /\ returned.value.fiber_span[k].gamma = fiber_span[k].gamma
                  /\ returned.value.fiber_span[k].beta2 = fiber_span[k].beta2
                  /\ returned.value.fiber_span[k].alpha_dB_per_m
                         = fiber_span[k].alpha_dB_per_m
           /\ returned.value.input_signal.timeFreq.number_of_points
                  = input_signal.timeFreq.number_of_points
           /\ returned.value.input_signal.timeFreq.time_step
                  = input_signal.timeFreq.time_step
           /\ returned.value.stepConfig = stepConfig

\* a span of two different fibers, a grid and a fixed step count have been
\* saved as python ints and loaded again
C24_Witness ==
    /\ pc = "done"
    /\ Len(fiber_span) = 2
    /\ fiber_span[1] # fiber_span[2]
    /\ args.number = "int"
    /\ ~stepConfig.stepApproach.isStr
    /\ files["timeFreq.csv"].rows[1][1].form = "integer"
    /\ files["Fiber_span.csv"].rows[1][1].form = "decimal"

(***************************************************************************)
(* Claims about the axes (specification SpecG)                             *)
(***************************************************************************)
\* C25: getTimeFromFrequency is the inverse of getFreqRangeFromTime: for the
\* time axis t of a grid, getTimeFromFrequency(getFreqRangeFromTime(t))
\* equals t sample for sample.
C25_TimeAxisRecovered ==
    (timeFreq_test # NoTimeFreq /\ timeFreq_test.time_step > 0) =>
        LET time == getTimeFromFrequency(getFreqRangeFromTime(timeFreq_test.t))
        IN  /\ Len(time.num) = Len(timeFreq_test.t.num)
            /\ \A k \in 1..Len(time.num) :
                   RatEq(AxisAt(time, k), AxisAt(timeFreq_test.t, k))

(***************************************************************************)
(* Claims about the merged records (specification Spec)                    *)
(***************************************************************************)
\* the row of the merged matrix that holds the junction after segment k
RECURSIVE JunctionRow(_)
JunctionRow(k) ==
    IF k = 0 THEN 1 ELSE JunctionRow(k - 1) + Len(returned.value[k].zinfo[1]) - 1

\* C26: when the matrices of a multi-fiber run are merged by unpackMatrix,
\* the last row dropped from each non-last fiber is identical to the first
\* row of the next fiber's matrix, for the pulse matrices and for the
\* spectrum matrices alike: the merged matrix holds the dropped field at the
\* junction.
C26_DroppedRowIsNextFirstRow ==
    pc = "unpacked" =>
        \A k \in 1..(Len(returned.value) - 1) :
            /\ Last(returned.value[k].pulseMatrix) = returned.value[k + 1].pulseMatrix[1]
            /\ pulseMatrix[JunctionRow(k)] = Last(returned.value[k].pulseMatrix)
            /\ Last(returned.value[k].spectrumMatrix)
                   = returned.value[k + 1].spectrumMatrix[1]
            /\ spectrumMatrix[JunctionRow(k)] = Last(returned.value[k].spectrumMatrix)

\* the position at which segment k of the returned list starts
RECURSIVE SegmentStart(_)
SegmentStart(k) ==
    IF k = 1 THEN 0 ELSE SegmentStart(k - 1) + returned.value[k - 1].fiber.Length

\* the number of steps of the first k segments
RECURSIVE StepsUpTo(_)
StepsUpTo(k) ==
    IF k = 0 THEN 0 ELSE StepsUpTo(k - 1) + Len(returned.value[k].zinfo[2])

\* the positions of the merged array are right
C30_Positions ==
    LET number_of_fibers == Len(returned.value)
        total == SegmentStart(number_of_fibers) + returned.value[number_of_fibers].fiber.Length
    IN  /\ Len(zvals) = StepsUpTo(number_of_fibers) + 1
        /\ zvals[1] = 0
        /\ Last(zvals) = total
        /\ \A r \in 1..(Len(zvals) - 1) : zvals[r] < zvals[r + 1]
        /\ \A k \in 2..number_of_fibers :
               Cardinality({r \in 1..Len(zvals) : zvals[r] = SegmentStart(k)}) = 1

\* every row of every record is found in the merged matrices at the row of
\* its position
C30_Rows ==
    \A k \in 1..Len(returned.value) :
        \A q \in 1..Len(returned.value[k].zinfo[1]) :
            LET r == JunctionRow(k - 1) + q - 1
            IN  /\ r <= Len(zvals)
                /\ zvals[r] = SegmentStart(k) + returned.value[k].zinfo[1][q]
                /\ pulseMatrix[r] = returned.value[k].pulseMatrix[q]
                /\ spectrumMatrix[r] = returned.value[k].spectrumMatrix[q]

\* C30: for a list of n >= 1 segment results unpackZvals returns an array of
\* length (sum of the step counts) + 1 that starts at 0, ends at the sum of
\* the fiber lengths, is strictly increasing and contains each junction
\* position exactly once; row r of the matrix returned by unpackMatrix is the
\* field at position zvals[r].
C30_MergedPositionsAndRows ==
    pc = "unpacked" => (C30_Positions /\ C30_Rows)

(***************************************************************************)
(* Claims about the objects of the caller (specification Spec)             *)
(***************************************************************************)
\* the signal object as the caller has constructed it
CallerSignal ==
    input_signal_class(input_signal.timeFreq, input_signal.Amax, input_signal.duration)

\* what C27 says of one transition of a run
C27_Transition ==
    /\ fiber_span' = fiber_span
    /\ pc' = "done" =>
           /\ input_signal'.amplitude = CallerSignal.amplitude
           /\ input_signal'.spectrum = CallerSignal.spectrum
           /\ input_signal'.Pmax = CallerSignal.Pmax

\* C27: SSFM leaves the caller's objects unchanged: after it returns, the
\* input signal passed in has the same amplitude, spectrum and Pmax as
\* before the call, and every fiber of the span has the same parameters.
C27_CallerObjectsUnchanged == [][C27_Transition]_vars

\* the object a result record refers to as its input_signal: every record
\* holds a reference to the one signal object of the run
SignalOf(record) == IF record.input_signal = SignalRef THEN input_signal ELSE NoSignal

\* C28: after a multi-segment run the input signal referenced by the i-th
\* record still describes the field launched into segment i: its amplitude
\* is row 0 of that record's pulse matrix and its Pmax is the value the
\* record's schedule was computed from (for the first record the Pmax of the
\* caller's signal); later segments do not change it.
C28_RecordKeepsLaunchedSignal ==
    (pc = "done" /\ Len(fiber_span) >= 2) =>
        \A k \in 1..Len(ssfm_result_list) :
            /\ SignalOf(ssfm_result_list[k]).amplitude = ssfm_result_list[k].pulseMatrix[1]
            /\ k = 1 => SignalOf(ssfm_result_list[k]).Pmax = CallerSignal.Pmax

(***************************************************************************)
(* Claims about the termination of the schedule (specification SpecU)      *)
(***************************************************************************)
\* the fibers, signals and safety factors C29 speaks of
C29_Domain ==
    /\ fiber.Length > 0 /\ fiber.gamma > 0 /\ fiber.beta2 # 0
    /\ fiber.alpha_Np_per_m >= 0
    /\ input_signal.Pmax > 0 /\ input_signal.duration > 0
    /\ stepConfig.stepSafetyFactor > 0

\* C29: for every fiber with L > 0, gamma > 0, beta2 # 0, alpha >= 0, every
\* signal with Pmax > 0 and duration > 0 and every safety factor > 0 the
\* variable-step loop terminates: each computed step is at least the step
\* computed at z = 0, which is positive, so the steps taken are at most
\* L divided by that step.
C29_VariableLoopTerminates ==
    (pc = "variableLoop" /\ C29_Domain) =>
        /\ StepAt(0) > 0
        /\ dz_current_step_to_next_step >= StepAt(0)
        /\ \A k \in 1..Len(dz_array) : dz_array[k] >= StepAt(0)
        /\ Len(dz_array) * StepAt(0) <= fiber.Length

====
